---- MODULE Spec2Model ----
(***************************************************************************)
(* Verification model of the deployment orchestration core of              *)
(* fabric-deployment-platform: DeploymentOrchestrator (single-customer     *)
(* phased deployment, destroy, planning), the batch coordinator            *)
(* (sequential and thread-pool mode), the batch CLI command that drives    *)
(* it, and the ValidationResult construction paths.                        *)
(*                                                                         *)
(* Strings built by f-strings and str.join are modelled as sequences of    *)
(* string tokens (a "message"); concatenation is \o.  Wall-clock values    *)
(* are abstracted to "unset"/"set".  Collaborators (validator, artifact    *)
(* manager, config loader, terraform wrapper) are nondeterministic: every  *)
(* call either returns one of a small set of values or raises.             *)
(***************************************************************************)
EXTENDS Integers, Sequences, FiniteSets, TLC

VARIABLES
    op,                 \* which public operation this behaviour runs
    call,               \* frame of a single deploy_customer / destroy_deployment / plan / validate call
    customers,          \* deploy_multiple_customers: the input list
    parallel,           \* deploy_multiple_customers: parallel flag
    continue_on_error,  \* deploy_multiple_customers: continue_on_error flag
    cli_mode,           \* "library" (direct call), "cli" (batch_deploy deploy), "cli_dry_run" (deploy --dry-run)
    batch_pc,           \* position of the coordinator (main) thread
    batch_result,       \* the BatchDeploymentResult under construction
    futures,            \* parallel mode: state of each submitted future
    idx,                \* sequential loop index / cancel-loop index
    yielded,            \* parallel mode: futures already produced by as_completed
    attempted,          \* ghost: customers for which deploy_customer was entered, in order
    at_failure,         \* ghost: the futures pending / running when the first failure was collected
    adapter_calls,      \* ghost: collaborator calls made for each customer of the batch
    worker_raised,      \* ghost: positions of the customers whose deploy_customer call raised
    tf_state,           \* the Terraform state of the customer/environment the single operations address
    status_call,        \* frame of a get_deployment_status call
    cfg,                \* the configuration files and the frame of a ConfigLoader.load_merged_config call
    loader,             \* the ConfigLoader instance: its defaults cache, and what its calls returned
    heap,               \* the dict objects of the configuration code, by address
    merge_call,         \* frame of a helpers.deep_merge call made on its own
    validator,          \* frame of a DeploymentValidator call
    shared_loader       \* one ConfigLoader used by the pool's workers at once: its cache, each worker's position

vars == <<op, call, customers, parallel, continue_on_error, cli_mode, batch_pc,
          batch_result, futures, idx, yielded, attempted, at_failure, adapter_calls,
          worker_raised, tf_state, status_call, cfg, loader, heap, merge_call, validator,
          shared_loader>>

batch_vars == <<customers, parallel, continue_on_error, cli_mode, batch_pc,
                batch_result, futures, idx, yielded, attempted, at_failure, adapter_calls, worker_raised>>

\* the state of the configuration code
config_vars == <<cfg, loader, heap, merge_call>>

\* everything but the configuration loader's frame
orchestrator_vars == <<op, call, batch_vars, tf_state, status_call, validator, shared_loader>>

-----------------------------------------------------------------------------
(* Bounds of the model *)

\* longest customer list given to deploy_multiple_customers
MaxCustomers == 3

\* ThreadPoolExecutor(max_workers=3)
max_workers == 3

\* most resources a Terraform state holds
MaxResources == 2

\* nesting depth of the dictionaries handed to deep_merge on its own
MaxDepth == 2

\* load_merged_config calls made on one ConfigLoader instance
MaxResolves == 2

-----------------------------------------------------------------------------
(* Messages *)

RECURSIVE Join(_, _)
\* sep.join(msgs): msgs is a sequence of messages, the result one message
Join(sep, msgs) ==
    IF Len(msgs) = 0 THEN <<>>
    ELSE IF Len(msgs) = 1 THEN msgs[1]
    ELSE msgs[1] \o <<sep>> \o Join(sep, Tail(msgs))

\* a list of plain names as a list of one-token messages
AsMsgs(names) == [i \in 1..Len(names) |-> <<names[i]>>]

\* str(e) of an exception raised by collaborator operation o
ExcMsg(o) == <<o, " raised">>

-----------------------------------------------------------------------------
(* models.py data classes *)

\* DeploymentPhase
VALIDATION == "validation"
PLANNING == "planning"
INFRASTRUCTURE == "infrastructure"
ARTIFACTS == "artifacts"
VERIFICATION == "verification"

\* DeploymentStatus
NOT_DEPLOYED == "not_deployed"
DEPLOYING == "deploying"
DEPLOYED == "deployed"
FAILED == "failed"
DESTROYING == "destroying"

\* @dataclass ValidationResult: the generated __init__ stores its arguments as given
ValidationResult(success, errors, warnings) ==
    [success |-> success, errors |-> errors, warnings |-> warnings]

\* DeploymentResult(customer_name, environment, status, success, started_at)
DeploymentResult(customer_name, status, success) ==
    [customer_name |-> customer_name,
     status |-> status,
     success |-> success,
     errors |-> <<>>,
     warnings |-> <<>>,
     phases_completed |-> <<>>,
     workspace_id |-> "",
     deployment_time |-> "unset",
     completed_at |-> "unset"]

\* mutant of add_error: the error is appended, success and status are left alone
add_error_append_only(result, error) ==
    [result EXCEPT !.errors = Append(@, error)]

\* DeploymentResult.add_error
add_error(result, error) ==
    [result EXCEPT !.errors = Append(@, error),
                   !.success = FALSE,
                   !.status = FAILED]

\* mutant of add_warning: a warning is recorded as an error is
add_warning_as_error(result, warning) == add_error(result, warning)

\* DeploymentResult.add_warning
add_warning(result, warning) ==
    [result EXCEPT !.warnings = Append(@, warning)]

\* PhaseResults(): every field None
PhaseResults ==
    [validation |-> "None", planning |-> "None", infrastructure |-> "None",
     artifacts |-> "None", verification |-> "None"]

\* PhaseResults.all_successful: all(r is None or getattr(r, 'success', True))
all_successful(phase_results) ==
    \A f \in DOMAIN phase_results : phase_results[f] \in {"None", "success"}

\* PrerequisiteCheck: the five facts, in declaration order
PrereqNames ==
    <<"terraform_available", "configuration_valid", "artifacts_present",
      "workspace_accessible", "credentials_valid">>

PrerequisiteChecks ==
    [terraform_available : BOOLEAN, configuration_valid : BOOLEAN,
     artifacts_present : BOOLEAN, workspace_accessible : BOOLEAN,
     credentials_valid : BOOLEAN]

\* PrerequisiteCheck.all_met
all_met(p) == \A i \in 1..Len(PrereqNames) : p[PrereqNames[i]]

\* PrerequisiteCheck.failed_checks
failed_checks(p) == SelectSeq(PrereqNames, LAMBDA n : ~p[n])

-----------------------------------------------------------------------------
(* Collaborator outcomes *)

\* what DeploymentValidator.validate_deployment_readiness hands back:
\* success = len(errors) == 0 (validator.py 98-105), or an exception
ReadinessReturn(errors, warnings) ==
    [kind |-> "return", vr |-> ValidationResult(Len(errors) = 0, errors, warnings), msg |-> <<>>]

ReadinessRaise == [kind |-> "raise", vr |-> ValidationResult(FALSE, <<>>, <<>>), msg |-> ExcMsg("checkReadiness")]

ErrorLists == {<<>>, << <<"E1">> >>, << <<"E1">>, <<"E2">> >>}

WarningLists == {<<>>, << <<"W1">> >>}

\* every outcome of every collaborator call
FullWorld ==
    [readiness |-> {ReadinessReturn(e, w) : e \in ErrorLists, w \in WarningLists} \cup {ReadinessRaise},
     discover |-> {"ok", "raise"},
     prereq |-> PrerequisiteChecks,
     plan |-> {"ok", "raise"},
     resolve |-> {"ok", "raise"},
     init |-> {"ok", "fail", "raise"},
     apply |-> {"ok", "fail", "raise"},
     outputs |-> {"outputs", "empty", "raise"},
     destroy |-> {"ok", "fail", "raise"}]

\* the outcomes drawn for each customer of a batch: one representative of each
\* way a deployment ends (success, returned failure at validation, planning or
\* infrastructure, swallowed or caught exception)
BatchWorld ==
    [readiness |-> {ReadinessReturn(<<>>, <<>>), ReadinessReturn(<< <<"E1">> >>, <<>>)},
     discover |-> {"ok"},
     prereq |-> {p \in PrerequisiteChecks : all_met(p)},
     plan |-> {"ok", "raise"},
     resolve |-> {"ok"},
     init |-> {"ok", "fail", "raise"},
     apply |-> {"ok", "fail"},
     outputs |-> {"outputs"},
     destroy |-> {"ok"}]

-----------------------------------------------------------------------------
(* orchestrator.py: one deploy_customer call, phase by phase *)

\* the frame of a call, after lines 92-101
NewCall(customer_name, status, dry_run, pc) ==
    [pc |-> pc,
     dry_run |-> dry_run,
     result |-> DeploymentResult(customer_name, status, FALSE),
     calls |-> <<>>,          \* ghost: collaborator operations invoked, in order
     produced |-> {},         \* ghost: ValidationResult objects constructed
     readiness |-> "none",    \* ghost: what the readiness check answered
     planning |-> "none",     \* ghost: what planning answered
     prereq |-> [checked |-> FALSE, unmet |-> <<>>],   \* ghost: what the prerequisite check reported
     infra |-> "none",        \* ghost: how init/apply ended
     verified |-> "none",     \* ghost: what getOutputs answered to _verify_deployment
     outputs_read |-> "none", \* ghost: what getOutputs answered to lines 164-170
     destroy |-> "none",      \* ghost: how the adapter's destroy ended
     raised |-> <<>>,         \* ghost: messages of the exceptions collaborators raised
     finalized |-> 0,         \* ghost: how often deployment_time/completed_at were assigned
     escaped |-> FALSE]       \* ghost: an exception left the call

Called(d, ops) == [d EXCEPT !.calls = @ \o ops]

Return(d) == [d EXCEPT !.pc = "returned"]

\* result.deployment_time = time.time() - start_time; result.completed_at = datetime.now()
Finalize(d) ==
    [d EXCEPT !.result.deployment_time = "set",
              !.result.completed_at = "set",
              !.finalized = @ + 1]

\* deploy_customer 185-195 / destroy_deployment 370-380: except Exception as e
ExceptHandler(d, msg) ==
    Return(Finalize([d EXCEPT !.result = add_error(@, msg)]))

\* DeploymentOrchestrator.validate_deployment_readiness (398-404)
validate_deployment_readiness(o) ==
    IF o.kind = "raise"
    THEN ValidationResult(FALSE, << <<"Validation failed: ">> \o o.msg >>, <<>>)
    ELSE o.vr

\* mutant of on_validation_failure: the error is recorded but `return result` is missing
on_validation_failure_without_return(d, validation_result) ==
    [d EXCEPT !.result =
        add_error(@, <<"Validation failed: ">> \o Join("; ", validation_result.errors)),
              !.pc = "planning"]

\* deploy_customer 112-114: validation failed
on_validation_failure(d, validation_result) ==
    Return([d EXCEPT !.result =
        add_error(@, <<"Validation failed: ">> \o Join("; ", validation_result.errors))])

\* deploy_customer 109-116
Phase1Validation(d, w) ==
    { LET validation_result == validate_deployment_readiness(o)
          d1 == [Called(d, <<"checkReadiness">>) EXCEPT
                    !.produced = @ \cup {validation_result},
                    !.raised = IF o.kind = "raise" THEN Append(@, o.msg) ELSE @,
                    !.readiness = IF validation_result.success THEN "ok" ELSE "failed"]
      IN  IF ~validation_result.success
          THEN on_validation_failure(d1, validation_result)
          ELSE [d1 EXCEPT !.result.phases_completed = Append(@, VALIDATION),
                          !.pc = "planning"]
      : o \in w.readiness }

\* plan_deployment 283-289: the planning's embedded validation
plan_validation(prereq_check) ==
    IF ~all_met(prereq_check)
    THEN ValidationResult(FALSE,
            << <<"Prerequisites not met: ">> \o Join(", ", AsMsgs(failed_checks(prereq_check))) >>,
            <<>>)
    ELSE ValidationResult(TRUE, <<>>, <<>>)

\* mutant of plan_calls: planning also applies
plan_calls_with_apply == <<"discover", "checkPrerequisites", "plan", "apply">>

\* plan_deployment 279-292: the collaborator operations of a planning that gets
\* past artifact discovery
plan_calls == <<"discover", "checkPrerequisites", "plan">>

\* DeploymentOrchestrator.plan_deployment (272-317): every way the call can end
plan_deployment(w) ==
    LET NoVR == ValidationResult(FALSE, <<>>, <<>>)
        raised(calls, made, o, reported) ==
            [kind |-> "raise", msg |-> <<"Planning failed: ">> \o ExcMsg(o), exc |-> ExcMsg(o),
             validation_result |-> NoVR, prerequisite_checks |-> <<>>,
             prereq |-> reported,
             calls |-> calls, constructed |-> made]
    IN  {raised(<<"discover">>, {}, "discover", [checked |-> FALSE, unmet |-> <<>>])
            : o \in w.discover \cap {"raise"}}
        \cup
        UNION { UNION {
            {raised(plan_calls, {plan_validation(p)}, "plan",
                    [checked |-> TRUE, unmet |-> failed_checks(p)])
                : o \in w.plan \cap {"raise"}}
            \cup
            {[kind |-> "return", msg |-> <<>>, exc |-> <<>>,
              validation_result |-> plan_validation(p),
              prerequisite_checks |-> failed_checks(p),
              prereq |-> [checked |-> TRUE, unmet |-> failed_checks(p)],
              calls |-> plan_calls,
              constructed |-> {plan_validation(p)}]
                : o \in w.plan \cap {"ok"}}
          : p \in w.prereq } : a \in w.discover \cap {"ok"} }

\* deploy_customer 127-135: the dry-run stop
dry_run_stop(d) ==
    Return(Finalize([d EXCEPT !.result.success = TRUE, !.result.status = DEPLOYED]))

\* mutant of after_planning: the dry_run flag is never looked at
after_planning_ignoring_dry_run(d) ==
    [d EXCEPT !.result.phases_completed = Append(@, PLANNING), !.pc = "infrastructure"]

\* deploy_customer 125-137: planning succeeded
after_planning(d) ==
    LET d1 == [d EXCEPT !.result.phases_completed = Append(@, PLANNING)]
    IN  IF d1.dry_run THEN dry_run_stop(d1) ELSE [d1 EXCEPT !.pc = "infrastructure"]

\* deploy_customer 118-135
Phase2Planning(d, w) ==
    { LET d1 == [Called(d, out.calls) EXCEPT
                    !.produced = @ \cup out.constructed,
                    !.prereq = out.prereq,
                    !.raised = IF out.kind = "raise" THEN Append(@, out.exc) ELSE @,
                    !.planning = IF out.kind = "raise" THEN "raised"
                                 ELSE IF out.validation_result.success THEN "ok" ELSE "failed"]
      IN  IF out.kind = "raise"
          THEN ExceptHandler(d1, out.msg)
          ELSE IF ~out.validation_result.success
          THEN Return([d1 EXCEPT !.result =
                  add_error(@, <<"Planning failed: ">> \o Join("; ", out.validation_result.errors))])
          ELSE after_planning(d1)
      : out \in plan_deployment(w) }

\* mutant of execute_deployment_phases: apply is called whatever init returned
execute_deployment_phases_without_init_check(w) ==
    {[phase_results |-> PhaseResults,
      calls |-> <<"init">>, ended |-> "init_raised"] : o \in w.init \cap {"raise"}}
    \cup
    UNION {
        {[phase_results |->
            IF a = "raise" THEN PhaseResults
            ELSE [PhaseResults EXCEPT
                    !.infrastructure = IF a = "ok" THEN "success" ELSE "failure",
                    !.artifacts = IF a = "ok" THEN "success" ELSE "failure"],
          calls |-> <<"init", "apply">>,
          ended |-> CASE o = "fail" -> "init_failed"
                      [] a = "ok" -> "ok" [] a = "fail" -> "apply_failed"
                      [] OTHER -> "apply_raised"]
            : a \in w.apply}
        : o \in w.init \cap {"ok", "fail"} }

\* DeploymentOrchestrator._execute_deployment_phases (446-468)
execute_deployment_phases(w) ==
    {[phase_results |-> [PhaseResults EXCEPT !.infrastructure = "failure"],
      calls |-> <<"init">>, ended |-> "init_failed"] : o \in w.init \cap {"fail"}}
    \cup
    {[phase_results |-> PhaseResults,
      calls |-> <<"init">>, ended |-> "init_raised"] : o \in w.init \cap {"raise"}}
    \cup
    UNION {
        {[phase_results |->
            IF a = "raise" THEN PhaseResults
            ELSE [PhaseResults EXCEPT
                    !.infrastructure = IF a = "ok" THEN "success" ELSE "failure",
                    !.artifacts = IF a = "ok" THEN "success" ELSE "failure"],
          calls |-> <<"init", "apply">>,
          ended |-> CASE a = "ok" -> "ok" [] a = "fail" -> "apply_failed" [] OTHER -> "apply_raised"]
            : a \in w.apply}
        : o \in w.init \cap {"ok"} }

\* deploy_customer 144-146: the phases were not all successful
on_infrastructure_failure(d) ==
    Return([d EXCEPT !.result = add_error(@, <<"Infrastructure deployment failed">>)])

\* deploy_customer 137-149
Phase3Infrastructure(d, w) ==
    {ExceptHandler([Called(d, <<"resolve">>) EXCEPT !.raised = Append(@, ExcMsg("resolve"))],
                   ExcMsg("resolve")) : o \in w.resolve \cap {"raise"}}
    \cup
    UNION {
        { LET d1 == [Called(d, <<"resolve">> \o out.calls) EXCEPT
                        !.infra = out.ended,
                        !.raised = CASE out.ended = "init_raised" -> Append(@, ExcMsg("init"))
                                     [] out.ended = "apply_raised" -> Append(@, ExcMsg("apply"))
                                     [] OTHER -> @]
          IN  IF ~all_successful(out.phase_results)
              THEN on_infrastructure_failure(d1)
              ELSE [d1 EXCEPT !.result.phases_completed = @ \o <<INFRASTRUCTURE, ARTIFACTS>>,
                              !.pc = "verification"]
          : out \in execute_deployment_phases(w) }
        : o \in w.resolve \cap {"ok"} }

\* mutant of verify_deployment: the verification always succeeds
verify_deployment_always(o) == TRUE

\* DeploymentOrchestrator._verify_deployment (470-478)
verify_deployment(o) == o = "outputs"

\* deploy_customer 151-161
Phase4Verification(d, w) ==
    { LET d1 == [Called(d, <<"getOutputs">>) EXCEPT
                    !.verified = o,
                    !.raised = IF o = "raise" THEN Append(@, ExcMsg("getOutputs")) ELSE @]
          d2 == IF verify_deployment(o)
                THEN [d1 EXCEPT !.result.phases_completed = Append(@, VERIFICATION)]
                ELSE d1
      IN  Finalize([d2 EXCEPT !.result.success = TRUE,
                              !.result.status = DEPLOYED,
                              !.pc = "outputs"])
      : o \in w.outputs }

\* deploy_customer 163-183
Phase5Outputs(d, w) ==
    { LET d1 == [Called(d, <<"getOutputs">>) EXCEPT
                    !.outputs_read = o,
                    !.raised = IF o = "raise" THEN Append(@, ExcMsg("getOutputs")) ELSE @]
      IN  IF o = "raise"
          THEN Return([d1 EXCEPT !.result =
                  add_warning(@, <<"Failed to get Terraform outputs: ">> \o ExcMsg("getOutputs"))])
          ELSE Return([d1 EXCEPT !.result.workspace_id = IF o = "outputs" THEN "ws" ELSE ""])
      : o \in w.outputs }

\* the successors of a deploy_customer frame
DeployStep(d, w) ==
    CASE d.pc = "validation" -> Phase1Validation(d, w)
      [] d.pc = "planning" -> Phase2Planning(d, w)
      [] d.pc = "infrastructure" -> Phase3Infrastructure(d, w)
      [] d.pc = "verification" -> Phase4Verification(d, w)
      [] d.pc = "outputs" -> Phase5Outputs(d, w)
      [] OTHER -> {}

RECURSIVE DeployRuns(_, _)
\* every frame in which a deploy_customer call started in frame d can return
DeployRuns(d, w) ==
    IF d.pc = "returned" THEN {d}
    ELSE UNION {DeployRuns(d2, w) : d2 \in DeployStep(d, w)}

\* deploy_customer(customer_name, environment, dry_run): entry
deploy_customer(customer_name, dry_run) ==
    NewCall(customer_name, DEPLOYING, dry_run, "validation")

-----------------------------------------------------------------------------
(* orchestrator.py: destroy_deployment *)

\* TerraformWrapper.destroy (311-339): the TerraformResult, or an exception
TerraformDestroy(o) ==
    [raised |-> o = "raise",
     success |-> o = "ok",
     errors |-> IF o = "fail" THEN << <<"Terraform destroy failed: ", "stderr">> >> ELSE <<>>]

\* mutant of destroy_deployment: the adapter's errors are not copied
destroy_deployment_dropping_errors(d, w) ==
    { LET tf_result == TerraformDestroy(o)
          d1 == [Called(d, <<"destroy">>) EXCEPT
                    !.destroy = o,
                    !.raised = IF tf_result.raised THEN Append(@, ExcMsg("destroy")) ELSE @]
      IN  IF tf_result.raised
          THEN ExceptHandler(d1, ExcMsg("destroy"))
          ELSE Return(Finalize([d1 EXCEPT
                  !.result.success = tf_result.success,
                  !.result.status = IF tf_result.success THEN NOT_DEPLOYED ELSE FAILED]))
      : o \in w.destroy }

\* DeploymentOrchestrator.destroy_deployment (335-380)
destroy_deployment(d, w) ==
    { LET tf_result == TerraformDestroy(o)
          d1 == [Called(d, <<"destroy">>) EXCEPT
                    !.destroy = o,
                    !.raised = IF tf_result.raised THEN Append(@, ExcMsg("destroy")) ELSE @]
      IN  IF tf_result.raised
          THEN ExceptHandler(d1, ExcMsg("destroy"))
          ELSE Return(Finalize([d1 EXCEPT
                  !.result.success = tf_result.success,
                  !.result.status = IF tf_result.success THEN NOT_DEPLOYED ELSE FAILED,
                  !.result.errors = IF ~tf_result.success THEN @ \o tf_result.errors ELSE @]))
      : o \in w.destroy }

-----------------------------------------------------------------------------
(* terraform_wrapper.py: validate_terraform_config *)

\* outputs of `terraform validate -json`: the exit code and the diagnostics' severities
ReturnCodes == {0, 1}

DiagnosticLists == {<<>>, <<"error">>, <<"warning">>, <<"warning", "error">>}

\* TerraformWrapper.validate_terraform_config (514-546)
validate_terraform_config(return_code, stderr_msg, diagnostics) ==
    LET success == return_code = 0
        errors0 == IF ~success THEN << <<"Terraform validation failed: ">> \o stderr_msg >> ELSE <<>>
        summaries(sev) ==
            LET picked == SelectSeq(diagnostics, LAMBDA s : s = sev)
            IN  [i \in 1..Len(picked) |-> <<"summary of ", picked[i]>>]
    IN  ValidationResult(success, errors0 \o summaries("error"), summaries("warning"))

\* TerraformWrapper.validate_terraform_config (548-553): tf.validate raised
validate_terraform_config_raised ==
    ValidationResult(FALSE, << <<"Terraform validation error: ">> \o ExcMsg("validate") >>, <<>>)

-----------------------------------------------------------------------------
(* Terraform state and get_deployment_status *)

NoState == [exists |-> FALSE, resource_count |-> 0]

\* what `terraform show` can find for a customer/environment
TfStates ==
    {NoState} \cup {[exists |-> TRUE, resource_count |-> n] : n \in 0..MaxResources}

\* the states the adapter operations ops can leave behind: apply (also a failed
\* one) creates or changes resources, destroy removes them, nothing else writes
TfAfter(state, ops) ==
    IF \E i \in 1..Len(ops) : ops[i] = "apply" THEN TfStates
    ELSE IF \E i \in 1..Len(ops) : ops[i] = "destroy"
    THEN {t \in TfStates : t.resource_count <= state.resource_count}
    ELSE {state}

\* TerraformWrapper.get_terraform_state (483-505); o = "raise" is an adapter
\* whose call raises
get_terraform_state(state, o) ==
    CASE o = "raise" -> [kind |-> "raise", exists |-> FALSE, resource_count |-> 0]
      [] o = "ok" /\ state.exists ->
            [kind |-> "return", exists |-> TRUE, resource_count |-> state.resource_count]
      [] OTHER -> [kind |-> "return", exists |-> FALSE, resource_count |-> 0]

\* mutant of get_deployment_status: an existing state counts as deployed
get_deployment_status_by_existence(state_info) ==
    IF state_info.kind = "raise" THEN NOT_DEPLOYED
    ELSE IF state_info.exists THEN DEPLOYED ELSE NOT_DEPLOYED

\* DeploymentOrchestrator.get_deployment_status (421-436)
get_deployment_status(state_info) ==
    IF state_info.kind = "raise" THEN NOT_DEPLOYED
    ELSE IF ~state_info.exists THEN NOT_DEPLOYED
    ELSE IF state_info.resource_count > 0 THEN DEPLOYED
    ELSE NOT_DEPLOYED

IdleStatusCall ==
    [pc |-> "idle", state_info |-> get_terraform_state(NoState, "ok"), status |-> NOT_DEPLOYED]

-----------------------------------------------------------------------------
(* orchestrator.py: deploy_multiple_customers *)

\* deploy_customer(self, customer_name, environment, dry_run: bool = False):
\* the coordinator calls deploy_customer(customer, environment)
dry_run_default == FALSE

\* BatchDeploymentResult(environment, total_customers, started_at)
BatchDeploymentResult(total_customers) ==
    [total_customers |-> total_customers,
     successful_deployments |-> <<>>,
     failed_deployments |-> <<>>,
     completed_at |-> "unset"]

\* BatchDeploymentResult.success_count
success_count(b) == Len(b.successful_deployments)

\* BatchDeploymentResult.failure_count
failure_count(b) == Len(b.failed_deployments)

\* BatchDeploymentResult.overall_success
overall_success(b) == failure_count(b) = 0

\* 507-513 / 529-535: the failed result made for a worker's exception
synthetic_failed_result(customer, msg) ==
    add_error(DeploymentResult(customer, FAILED, FALSE), msg)

\* 495-498 / 522-525 and 505-514 / 528-536: file one outcome in the batch result
record_outcome(b, customer, outcome) ==
    IF outcome.escaped
    THEN [b EXCEPT !.failed_deployments =
            Append(@, synthetic_failed_result(customer, ExcMsg("deploy_customer")))]
    ELSE IF outcome.result.success
    THEN [b EXCEPT !.successful_deployments = Append(@, outcome.result)]
    ELSE [b EXCEPT !.failed_deployments = Append(@, outcome.result)]

\* mutant of sequential_breaks: the loop never breaks
sequential_breaks_never(outcome, coe) == FALSE

\* mutant of sequential_breaks: a failure breaks the loop whatever continue_on_error says
sequential_breaks_on_any_failure(outcome, coe) ==
    outcome.escaped \/ ~outcome.result.success

\* 522-539: does the sequential loop leave after this outcome
sequential_breaks(outcome, coe) ==
    (outcome.escaped \/ ~outcome.result.success) /\ ~coe

\* mutant of parallel_breaks: a returned failure stops the collection whatever
\* continue_on_error says
parallel_breaks_on_any_failure(outcome, coe) ==
    ~outcome.escaped /\ ~outcome.result.success

\* mutant of parallel_breaks: the collection stops after the first result
parallel_breaks_after_any_result(outcome, coe) == TRUE

\* 495-504: does the as_completed loop cancel and leave after this outcome
\* (the except branch 505-514 has no break)
parallel_breaks(outcome, coe) ==
    ~outcome.escaped /\ ~outcome.result.success /\ ~coe

\* self.deploy_customer(customer, environment) raising instead of returning: what
\* future.result() re-raises at 494 and the call at 521 raises into the
\* coordinators' except branches (505, 528)
WorkerRaises(customer) ==
    [deploy_customer(customer, dry_run_default) EXCEPT !.pc = "returned", !.escaped = TRUE]

\* the deploy_customer runs a batch worker can make for a customer
BatchRuns(customer) ==
    DeployRuns(deploy_customer(customer, dry_run_default), BatchWorld) \cup {WorkerRaises(customer)}

Pending(i) == futures[i].state = "pending"

Running == {i \in DOMAIN futures : futures[i].state = "running"}

\* mutant of Done: a cancelled future does not count as done
Done_when_finished(i) == futures[i].state = "finished"

\* Future.done(): finished or cancelled
Done(i) == futures[i].state \in {"finished", "cancelled"}

NoFailure == [seen |-> FALSE, pending |-> {}, running |-> {}]

IdleFrame == NewCall(0, NOT_DEPLOYED, FALSE, "idle")

NewFuture(customer) ==
    [state |-> "pending", outcome |-> deploy_customer(customer, dry_run_default)]

\* mutant of idle_worker: the executor starts every submitted call at once
idle_worker_always(running) == TRUE

\* ThreadPoolExecutor(max_workers=3): a queued call starts when fewer than
\* max_workers calls are executing
idle_worker(running) == Cardinality(running) < max_workers

\* mutant of cancel: a deployment that is executing is cancelled too
cancel_while_running(future) ==
    IF future.state \in {"pending", "running"} THEN [future EXCEPT !.state = "cancelled"] ELSE future

\* 502-503: `if not remaining_future.done(): remaining_future.cancel()`; cancel()
\* takes a future that has not started and leaves a running one alone
cancel(future) ==
    IF future.state = "pending" THEN [future EXCEPT !.state = "cancelled"] ELSE future

-----------------------------------------------------------------------------
(* config: configuration trees, helpers.deep_merge, ConfigLoader.load_merged_config,
   ConfigValidator.validate_merged_config *)

\* a configuration tree is a function from keys to nodes; a node is a scalar
\* (leaf) or a nested dictionary (map)
Leaf(v) == [kind |-> "leaf", value |-> v, items |-> <<>>]

Map(t) == [kind |-> "map", value |-> "", items |-> t]

EmptyTree == <<>>

RECURSIVE Tree(_)
\* the dictionary safe_load_yaml returns for a file that sets the given
\* <<path, value>> pairs
Tree(S) ==
    [k \in {pv[1][1] : pv \in S} |->
        IF \E pv \in S : pv[1] = <<k>>
        THEN Leaf((CHOOSE pv \in S : pv[1] = <<k>>)[2])
        ELSE Map(Tree({<<Tail(pv[1]), pv[2]>> : pv \in {q \in S : q[1][1] = k}}))]

\* d.get(key, {}) for a dictionary d
GetOrEmpty(d, key) == IF key \in DOMAIN d THEN d[key] ELSE Map(EmptyTree)

\* d[key] = node
Put(d, key, node) == [k \in DOMAIN d \cup {key} |-> IF k = key THEN node ELSE d[k]]

\* Python objects.  The heap maps the address of every dict object to the
\* dict: a function from keys to cells, a cell being a scalar (Leaf) or a
\* reference to another dict object (Ref).  Addresses are sequences of strings.
Ref(address) == [kind |-> "ref", value |-> "", items |-> address]

NoObjects == <<>>

\* the union of heaps whose address sets are disjoint
HeapUnion(heaps) ==
    [a \in UNION {DOMAIN g : g \in heaps} |-> (CHOOSE g \in heaps : a \in DOMAIN g)[a]]

RECURSIVE Store(_, _)
\* the objects yaml.safe_load builds for a document whose content is `tree`,
\* the outermost dict at address `at`
Store(at, tree) ==
    (at :> [k \in DOMAIN tree |-> IF tree[k].kind = "map" THEN Ref(at \o <<k>>) ELSE tree[k]])
    @@ HeapUnion({Store(at \o <<k>>, tree[k].items) : k \in {j \in DOMAIN tree : tree[j].kind = "map"}})

RECURSIVE Read(_, _)
\* the value (what == compares) of the dict at an address
Read(h, address) ==
    [k \in DOMAIN h[address] |->
        IF h[address][k].kind = "ref" THEN Map(Read(h, h[address][k].items)) ELSE h[address][k]]

RECURSIVE Reach(_, _)
\* the dict objects reachable from the dict at an address, itself included
Reach(h, address) ==
    {address} \cup UNION {Reach(h, h[address][k].items) :
                            k \in {j \in DOMAIN h[address] : h[address][j].kind = "ref"}}

\* mutant of copy_deepcopy: the value is stored as it is, a dict by reference
copy_by_reference(h, cell, at) == [cell |-> cell, objs |-> NoObjects]

RECURSIVE copy_deepcopy(_, _, _)
\* copy.deepcopy(value): the cell that holds the copy, and the objects the copy
\* consists of (none for a scalar), allocated at `at` and below
copy_deepcopy(h, cell, at) ==
    IF cell.kind # "ref" THEN [cell |-> cell, objs |-> NoObjects]
    ELSE LET d == h[cell.items]
             sub(k) == copy_deepcopy(h, d[k], at \o <<k>>)
         IN  [cell |-> Ref(at),
              objs |-> (at :> [k \in DOMAIN d |-> sub(k).cell])
                       @@ HeapUnion({sub(k).objs : k \in DOMAIN d})]

\* mutant of deep_merge: a dict of dict2 replaces the dict of dict1 under the same key
deep_merge_replacing(h, dict1, dict2, at) ==
    LET entry(key) == IF key \in DOMAIN h[dict2]
                      THEN copy_deepcopy(h, h[dict2][key], at \o <<key>>)
                      ELSE copy_deepcopy(h, h[dict1][key], at \o <<key>>)
    IN  (at :> [key \in DOMAIN h[dict1] \cup DOMAIN h[dict2] |-> entry(key).cell])
        @@ HeapUnion({entry(key).objs : key \in DOMAIN h[dict1] \cup DOMAIN h[dict2]})

RECURSIVE deep_merge(_, _, _, _)
\* helpers.deep_merge(dict1, dict2) for the dicts at addresses dict1 and dict2:
\* the objects of the returned dict, which is allocated at `at`.  (The copy of
\* dict1[key] that line 34 makes and the recursive call of line 38 copies
\* again is dropped by line 38; it is not modelled as an object.)
deep_merge(h, dict1, dict2, at) ==
    LET entry(key) ==
            IF key \notin DOMAIN h[dict2]
            THEN copy_deepcopy(h, h[dict1][key], at \o <<key>>)
            ELSE IF key \in DOMAIN h[dict1] /\ h[dict1][key].kind = "ref"
                                            /\ h[dict2][key].kind = "ref"
            THEN [cell |-> Ref(at \o <<key>>),
                  objs |-> deep_merge(h, h[dict1][key].items, h[dict2][key].items, at \o <<key>>)]
            ELSE copy_deepcopy(h, h[dict2][key], at \o <<key>>)
    IN  (at :> [key \in DOMAIN h[dict1] \cup DOMAIN h[dict2] |-> entry(key).cell])
        @@ HeapUnion({entry(key).objs : key \in DOMAIN h[dict1] \cup DOMAIN h[dict2]})

\* h with the objects a call allocated; an address is reused only for an
\* object nothing refers to any more
Allocate(h, objs) == objs @@ h

\* mutant of merge_layers: the environment override is merged before the customer base
merge_layers_override_early(h, architecture_defaults, customer_base, env_defaults, env_override, at) ==
    LET h0 == Allocate(h, (<<"{}">> :> EmptyTree))
        h1 == Allocate(h0, deep_merge(h0, <<"{}">>, architecture_defaults, <<"merged1">>))
        h2 == Allocate(h1, deep_merge(h1, <<"merged1">>, env_override, <<"merged2">>))
        h3 == Allocate(h2, deep_merge(h2, <<"merged2">>, customer_base, <<"merged3">>))
    IN  Allocate(h3, deep_merge(h3, <<"merged3">>, env_defaults, at))

\* load_merged_config 226-237: the four merges, lowest layer first; the heap
\* after them, the merged dict at `at`
merge_layers(h, architecture_defaults, customer_base, env_defaults, env_override, at) ==
    LET h0 == Allocate(h, (<<"{}">> :> EmptyTree))
        h1 == Allocate(h0, deep_merge(h0, <<"{}">>, architecture_defaults, <<"merged1">>))
        h2 == Allocate(h1, deep_merge(h1, <<"merged1">>, customer_base, <<"merged2">>))
        h3 == Allocate(h2, deep_merge(h2, <<"merged2">>, env_defaults, <<"merged3">>))
    IN  Allocate(h3, deep_merge(h3, <<"merged3">>, env_override, at))

\* mutant of inject_environment: the name and the workspace identifier are
\* added to the `environment` dict the merges produced
inject_environment_into_merged(h, merged_config, environment, env_override, at) ==
    LET old == IF "environment" \in DOMAIN h[merged_config]
                  /\ h[merged_config]["environment"].kind = "ref"
               THEN h[h[merged_config]["environment"].items] ELSE EmptyTree
        name == Put(old, "name", Leaf(environment))
        sub_tree == IF "workspace_id" \in DOMAIN h[env_override]
                    THEN Put(name, "workspace_id", h[env_override]["workspace_id"])
                    ELSE name
    IN  [Allocate(h, (at :> sub_tree)) EXCEPT ![merged_config] = Put(@, "environment", Ref(at))]

\* load_merged_config 239-242: the environment sub-tree, a new dict at `at`
\* stored under the merged dict's "environment" key
inject_environment(h, merged_config, environment, env_override, at) ==
    LET name == Put(EmptyTree, "name", Leaf(environment))
        sub_tree == IF "workspace_id" \in DOMAIN h[env_override]
                    THEN Put(name, "workspace_id", h[env_override]["workspace_id"])
                    ELSE name
    IN  [Allocate(h, (at :> sub_tree)) EXCEPT ![merged_config] = Put(@, "environment", Ref(at))]

\* the objects still referred to from the given dicts
Live(h, roots) ==
    LET kept == UNION {Reach(h, r) : r \in roots} IN [a \in kept |-> h[a]]

\* `not d.get(key)` for a dictionary d: the key is absent or its value is empty
Falsy(d, key) == key \notin DOMAIN d \/ d[key] = Leaf("")

required_sections == <<"customer", "architecture", "capacity">>

\* ConfigValidator.validate_merged_config (132-165): the first failing check
\* raises; .get on a section that is no dictionary is an AttributeError, which
\* the except clause does not catch
validate_merged_config(config) ==
    LET missing_sections == SelectSeq(required_sections, LAMBDA sec : sec \notin DOMAIN config)
        ValueError(msg, found) ==
            [kind |-> "ValueError", msg |-> <<"Merged config validation failed: ">> \o msg,
             reported |-> found]
        AttributeError == [kind |-> "AttributeError", msg |-> <<"no attribute 'get'">>, reported |-> {}]
    IN  IF missing_sections # <<>>
        THEN ValueError(<<"Missing required configuration sections: ">> \o missing_sections,
                        {<<"missing section", missing_sections[i]>> : i \in 1..Len(missing_sections)})
        ELSE IF config["customer"].kind # "map" THEN AttributeError
        ELSE IF Falsy(config["customer"].items, "name")
        THEN ValueError(<<"Customer name is required">>, {<<"empty", "customer.name">>})
        ELSE IF Falsy(config["customer"].items, "prefix")
        THEN ValueError(<<"Customer prefix is required">>, {<<"empty", "customer.prefix">>})
        ELSE IF config["architecture"].kind # "map" THEN AttributeError
        ELSE IF GetOrEmpty(config["architecture"].items, "medallion").kind # "map"
        THEN ValueError(<<"Architecture medallion configuration must be a dictionary">>,
                        {<<"no dictionary", "architecture.medallion">>})
        ELSE IF config["capacity"].kind # "map" THEN AttributeError
        ELSE IF Falsy(config["capacity"].items, "fabric_capacity_id")
        THEN ValueError(<<"Fabric capacity ID is required">>, {<<"empty", "capacity.fabric_capacity_id">>})
        ELSE IF "workspace_id" \in DOMAIN config /\ config["workspace_id"] = Leaf("")
        THEN ValueError(<<"Workspace ID cannot be empty">>, {<<"empty", "workspace_id">>})
        ELSE [kind |-> "ok", msg |-> <<>>, reported |-> {}]

\* the content of defaults/architecture.yaml
ArchitectureFiles ==
    {Tree({}),
     Tree({<< <<"architecture", "medallion", "bronze">>, "G" >>}),
     Tree({<< <<"architecture", "capacity", "fabric_capacity_id">>, "G" >>,
           << <<"architecture", "debug_mode">>, "G" >>})}

\* the section of defaults/environments.yaml for the requested environment
\* (no schema is applied to it)
EnvironmentDefaults ==
    {Tree({}),
     Tree({<< <<"debug_mode">>, "D" >>}),
     Tree({<< <<"capacity", "fabric_capacity_id">>, "D" >>}),
     Tree({<< <<"customer", "name">>, "" >>, << <<"customer", "prefix">>, "" >>}),
     Tree({<< <<"customer", "name">>, "" >>, << <<"capacity", "fabric_capacity_id">>, "" >>}),
     Tree({<< <<"environment", "region">>, "D" >>, << <<"architecture", "medallion", "bronze">>, "D" >>})}

\* the content of customers/<customer>/base.yaml
CustomerBases ==
    {Tree({<< <<"customer", "name">>, "C" >>, << <<"customer", "prefix">>, "C" >>,
           << <<"architecture", "medallion", "bronze">>, "C" >>,
           << <<"capacity", "fabric_capacity_id">>, "C" >>}),
     Tree({<< <<"customer", "name">>, "C" >>, << <<"customer", "prefix">>, "C" >>,
           << <<"capacity", "fabric_capacity_id">>, "C" >>, << <<"debug_mode">>, "C" >>}),
     Tree({<< <<"customer", "name">>, "C" >>, << <<"customer", "prefix">>, "" >>,
           << <<"architecture", "medallion", "bronze">>, "C" >>}),
     Tree({<< <<"customer", "name">>, "C" >>, << <<"customer", "prefix">>, "C" >>,
           << <<"architecture", "medallion", "bronze">>, "C" >>,
           << <<"capacity", "fabric_capacity_id">>, "" >>, << <<"environment", "region">>, "C" >>})}

\* the content of customers/<customer>/environments/<environment>.yaml
EnvironmentOverrides ==
    {Tree({}),
     Tree({<< <<"workspace_id">>, "O" >>}),
     Tree({<< <<"workspace_id">>, "" >>, << <<"debug_mode">>, "O" >>}),
     Tree({<< <<"workspace_id">>, "O" >>, << <<"capacity", "fabric_capacity_id">>, "O" >>,
           << <<"environment", "region">>, "O" >>}),
     Tree({<< <<"architecture">>, "O" >>})}

\* how loading a layer file can end
LoadOutcomes == {"ok", "not_found", "schema_violation"}

IdleResolve ==
    [pc |-> "idle", environment |-> "dev",
     architecture_file |-> EmptyTree, env_defaults |-> EmptyTree,
     customer_base |-> EmptyTree, env_override |-> EmptyTree,
     \* ghost: how reading each file ends, once it has been read
     outcomes |-> [defaults |-> "unknown", base |-> "unknown", override |-> "unknown"],
     sources_changed |-> FALSE,                     \* ghost: a default file was rewritten
     call_no |-> 0,                                 \* ghost: the how-manieth call on the loader
     merged_config |-> EmptyTree,                   \* value of merged_config
     result |-> <<>>,                               \* address of merged_config
     merges |-> 0,                                  \* ghost: deep_merge calls made
     error |-> [kind |-> "none", msg |-> <<>>, reported |-> {}]]

\* addresses of the two dicts load_defaults caches
DefaultsArchitecture == <<"defaults", "architecture">>

DefaultsEnvironments == <<"defaults", "environments">>

\* ConfigLoader.__init__ 61-64
IdleLoader ==
    [defaults_cache |-> "None",
     default_reads |-> 0,          \* ghost: how often the default files were read
     defaults_calls |-> <<>>,      \* ghost: how each load_defaults call ended, and its value
     returned |-> <<>>,            \* ghost: how each load_merged_config call ended, and its value
     touched |-> "nothing"]        \* ghost: what the caller did with the last returned dict

\* the value of the cached defaults
CacheValue(h) ==
    [architecture |-> Read(h, DefaultsArchitecture),
     environments |-> Read(h, DefaultsEnvironments)]

NoValue == [architecture |-> EmptyTree, environments |-> EmptyTree]

\* mutant of load_defaults: the cache is never looked at
load_defaults_always_reading(ld, h, architecture_file, env_defaults, readable) ==
    IF readable # "ok"
    THEN [raised |-> TRUE, heap |-> h,
          loader |-> [ld EXCEPT !.default_reads = @ + 1,
                                !.defaults_calls = Append(@, [how |-> "raised", value |-> NoValue])]]
    ELSE LET h1 == Allocate(h,
                    Store(DefaultsArchitecture, GetOrEmpty(architecture_file, "architecture").items)
                    @@ Store(DefaultsEnvironments, env_defaults))
         IN  [raised |-> FALSE, heap |-> h1,
              loader |-> [ld EXCEPT !.defaults_cache = "cached",
                                    !.default_reads = @ + 1,
                                    !.defaults_calls =
                                        Append(@, [how |-> "read", value |-> CacheValue(h1)])]]

\* ConfigLoader.load_defaults (84-110); `readable` is how reading the default
\* files ends.  defaults["environments"] is modelled by its section for the
\* requested environment.
load_defaults(ld, h, architecture_file, env_defaults, readable) ==
    IF ld.defaults_cache # "None"
    THEN [raised |-> FALSE, heap |-> h,
          loader |-> [ld EXCEPT !.defaults_calls =
                        Append(@, [how |-> "cached", value |-> CacheValue(h)])]]
    ELSE IF readable # "ok"
    THEN [raised |-> TRUE, heap |-> h,
          loader |-> [ld EXCEPT !.default_reads = @ + 1,
                                !.defaults_calls = Append(@, [how |-> "raised", value |-> NoValue])]]
    ELSE LET h1 == Allocate(h,
                    Store(DefaultsArchitecture, GetOrEmpty(architecture_file, "architecture").items)
                    @@ Store(DefaultsEnvironments, env_defaults))
         IN  [raised |-> FALSE, heap |-> h1,
              loader |-> [ld EXCEPT !.defaults_cache = "cached",
                                    !.default_reads = @ + 1,
                                    !.defaults_calls =
                                        Append(@, [how |-> "read", value |-> CacheValue(h1)])]]

\* dict.pop(key, None)
Remove(d, key) == [k \in DOMAIN d \ {key} |-> d[k]]

\* what a caller holding the dict at `root` can do to it: assign or delete a
\* key of the dict or of a dict inside it
Mutations(h, root) ==
    UNION {{[h EXCEPT ![a] = Put(@, k, Leaf("M"))] : k \in DOMAIN h[a] \cup {"added"}}
            : a \in Reach(h, root)}
    \cup UNION {{[h EXCEPT ![a] = Remove(@, k)] : k \in DOMAIN h[a]} : a \in Reach(h, root)}

\* ConfigLoader.prepare_template_variables (281-331) for the merged
\* configuration at address merged_config: the heap after the call, the
\* returned dict at `at`
prepare_template_variables(h, merged_config, environment, at) ==
    LET config == h[merged_config]
        get(d, key, default) == IF key \in DOMAIN d THEN d[key] ELSE default
        new(name) == Ref(at \o <<name>>)
        customer_info == get(config, "customer", new("customer"))
        env_info == get(config, "environment", new("environment"))
        h1 == Allocate(h, [a \in {new("customer").items, new("environment").items,
                                  new("architecture").items, new("medallion").items,
                                  new("advanced").items, new("custom_tags").items,
                                  new("environment_tags").items} |-> EmptyTree])
        \* 287-290: env_info.update(...)
        h2 == [h1 EXCEPT ![env_info.items] =
                    Put(Put(@, "name", Leaf(environment)),
                        "debug_mode", get(config, "debug_mode", Leaf("False")))]
        architecture == get(h2[get(config, "architecture", new("architecture")).items],
                            "medallion", new("medallion"))
        \* 296-298: a shallow copy of the capacity dict, updated with capacity_settings
        capacity == IF "capacity" \in DOMAIN config THEN h2[config["capacity"].items] ELSE EmptyTree
        capacity_settings == IF "capacity_settings" \in DOMAIN config
                             THEN h2[config["capacity_settings"].items] ELSE EmptyTree
        capacity_info == [k \in DOMAIN capacity \cup DOMAIN capacity_settings |->
                            IF k \in DOMAIN capacity_settings THEN capacity_settings[k]
                            ELSE capacity[k]]
        \* 301-303: merge_tags(customer_tags, environment_tags)
        customer_tags == h2[get(h2[get(config, "advanced", new("advanced")).items],
                                "custom_tags", new("custom_tags")).items]
        environment_tags == h2[get(config, "environment_tags", new("environment_tags")).items]
        all_tags == [k \in DOMAIN customer_tags \cup DOMAIN environment_tags |->
                        IF k \in DOMAIN environment_tags THEN environment_tags[k]
                        ELSE customer_tags[k]]
        deployment_info ==
            Put(Put(Put(Put(EmptyTree, "timestamp", Leaf("set")), "version", Leaf("1.0.0")),
                    "customer", get(h2[customer_info.items], "name", Leaf(""))),
                "environment", Leaf(environment))
        template_variables ==
            Put(Put(Put(Put(Put(Put(EmptyTree, "customer", customer_info),
                                "environment", env_info),
                            "architecture", architecture),
                        "capacity", new("capacity")),
                    "tags", new("tags")),
                "deployment", new("deployment"))
    IN  Allocate(h2, (at :> template_variables)
                     @@ (new("capacity").items :> capacity_info)
                     @@ (new("tags").items :> all_tags)
                     @@ (new("deployment").items :> deployment_info))

\* the dictionaries handed to deep_merge on its own: every dict of nesting
\* depth up to `depth` over two keys, all scalars being v
MergeKeys == {"a", "b"}

RECURSIVE Layers(_, _)

Layers(depth, v) ==
    IF depth = 0 THEN {EmptyTree}
    ELSE LET nodes == {Leaf(v)} \cup {Map(t) : t \in Layers(depth - 1, v)}
         IN  UNION {[S -> nodes] : S \in SUBSET MergeKeys}

IdleMerge ==
    [pc |-> "idle", dict1 |-> <<"L1">>, dict2 |-> <<"L2">>,
     L1 |-> EmptyTree, L2 |-> EmptyTree,     \* ghost: the values of the arguments at the call
     given |-> NoObjects,                    \* ghost: the objects of the arguments at the call
     result |-> <<>>]

-----------------------------------------------------------------------------
(* deployment/validator.py: DeploymentValidator *)

\* a customer name, by what _validate_customer_name reads of it: its length and
\* whether every character is a letter, a digit, "_" or "-"
CustomerNames == [len : {0, 1, 2, 50, 51}, legal : BOOLEAN]

Environments == {"dev", "test", "prod"}

EnvironmentNames == Environments \cup {"staging"}

\* how subprocess.run(..., timeout=10) ends: return code zero or not,
\* TimeoutExpired, FileNotFoundError, or another OSError (PermissionError when
\* the file found on PATH may not be executed)
RunOutcomes == {"zero", "nonzero", "timeout", "not_found", "os_error"}

\* the ValidationResult the readiness check builds
ReadinessResult(success, errors, warnings, checks_performed) ==
    [success |-> success, errors |-> errors, warnings |-> warnings,
     checks_performed |-> checks_performed]

\* DeploymentValidator._validate_customer_name (330-338)
validate_customer_name(customer_name) ==
    /\ customer_name.len # 0
    /\ ~(customer_name.len < 2 \/ customer_name.len > 50)
    /\ customer_name.legal

\* DeploymentValidator._validate_customer_config (340-355): the two returns
validate_customer_config(raised) ==
    IF raised
    THEN ReadinessResult(FALSE, << <<"Configuration validation failed">> >>, <<>>,
                         <<"customer_config_validation">>)
    ELSE ReadinessResult(TRUE, <<>>, <<>>, <<"customer_config_format", "customer_config_schema">>)

\* DeploymentValidator._validate_artifacts_exist (357-370): the two returns
validate_artifacts_exist(raised) ==
    IF raised
    THEN ReadinessResult(FALSE, << <<"Artifact validation failed">> >>, <<>>,
                         <<"artifact_validation">>)
    ELSE ReadinessResult(TRUE, <<>>, <<>>, <<"artifact_existence">>)

\* DeploymentValidator._check_terraform_available (372-382): only TimeoutExpired
\* and FileNotFoundError are caught
check_terraform_available(run) ==
    CASE run = "zero" -> "True"
      [] run \in {"nonzero", "timeout", "not_found"} -> "False"
      [] OTHER -> "raise"

\* DeploymentValidator._check_azure_cli_available (424-434)
check_azure_cli_available(run) ==
    CASE run = "zero" -> "True"
      [] run \in {"nonzero", "timeout", "not_found"} -> "False"
      [] OTHER -> "raise"

\* DeploymentValidator._check_credentials_valid (409-422): except Exception: return False
check_credentials_valid(has_env_vars, az) ==
    IF check_azure_cli_available(az) = "raise"
    THEN FALSE
    ELSE has_env_vars \/ check_azure_cli_available(az) = "True"

\* PrerequisiteCheck(): every fact False
PrerequisiteCheck == [n \in {PrereqNames[i] : i \in 1..Len(PrereqNames)} |-> FALSE]

\* DeploymentValidator.validate_prerequisites (143-179); ran: the checks that
\* were evaluated, in order
validate_prerequisites(terraform, has_env_vars, az) ==
    IF check_terraform_available(terraform) = "raise"
    THEN [check |-> PrerequisiteCheck, ran |-> <<"terraform_available">>]
    ELSE [check |-> [PrerequisiteCheck EXCEPT
                        !.terraform_available = check_terraform_available(terraform) = "True",
                        !.configuration_valid = TRUE,
                        !.artifacts_present = TRUE,
                        !.workspace_accessible = TRUE,
                        !.credentials_valid = check_credentials_valid(has_env_vars, az)],
          ran |-> PrereqNames]

\* 94: f"Prerequisite failed: {check}" for each failed check
PrerequisiteErrors(check) ==
    [i \in 1..Len(failed_checks(check)) |-> <<"Prerequisite failed: ", failed_checks(check)[i]>>]

\* mutant of validator_validate_deployment_readiness: the result is returned at
\* the first check that fails
validator_validate_deployment_readiness_stopping(v) ==
    LET config_validation == validate_customer_config(v.config_raised)
        artifacts_validation == validate_artifacts_exist(v.artifacts_raised)
        prereq_check == validate_prerequisites(v.terraform, v.has_env_vars, v.az).check
    IN  IF ~validate_customer_name(v.customer_name)
        THEN ReadinessResult(FALSE, << <<"Invalid customer name format">> >>, <<>>,
                             <<"customer_name_format">>)
        ELSE IF v.environment \notin Environments
        THEN ReadinessResult(FALSE, << <<"Invalid environment">> >>, <<>>,
                             <<"customer_name_format", "environment_name">>)
        ELSE IF ~config_validation.success
        THEN ReadinessResult(FALSE, config_validation.errors, config_validation.warnings,
                             <<"customer_name_format", "environment_name">>
                                \o config_validation.checks_performed)
        ELSE IF ~artifacts_validation.success
        THEN ReadinessResult(FALSE, artifacts_validation.errors, artifacts_validation.warnings,
                             <<"customer_name_format", "environment_name">>
                                \o config_validation.checks_performed
                                \o artifacts_validation.checks_performed)
        ELSE ReadinessResult(all_met(prereq_check), PrerequisiteErrors(prereq_check), <<>>,
                             <<"customer_name_format", "environment_name">>
                                \o config_validation.checks_performed
                                \o artifacts_validation.checks_performed
                                \o <<"prerequisites">>)

\* DeploymentValidator.validate_deployment_readiness (58-113)
validator_validate_deployment_readiness(v) ==
    LET config_validation == validate_customer_config(v.config_raised)
        artifacts_validation == validate_artifacts_exist(v.artifacts_raised)
        prereq_check == validate_prerequisites(v.terraform, v.has_env_vars, v.az).check
        errors1 == IF ~validate_customer_name(v.customer_name)
                   THEN << <<"Invalid customer name format">> >> ELSE <<>>
        errors2 == IF v.environment \notin Environments
                   THEN Append(errors1, <<"Invalid environment">>) ELSE errors1
        errors3 == IF ~config_validation.success
                   THEN errors2 \o config_validation.errors ELSE errors2
        warnings3 == IF ~config_validation.success THEN config_validation.warnings ELSE <<>>
        errors4 == IF ~artifacts_validation.success
                   THEN errors3 \o artifacts_validation.errors ELSE errors3
        warnings4 == IF ~artifacts_validation.success
                     THEN warnings3 \o artifacts_validation.warnings ELSE warnings3
        errors == IF ~all_met(prereq_check)
                  THEN errors4 \o PrerequisiteErrors(prereq_check) ELSE errors4
    IN  ReadinessResult(Len(errors) = 0, errors, warnings4,
                        <<"customer_name_format", "environment_name">>
                           \o config_validation.checks_performed
                           \o artifacts_validation.checks_performed
                           \o <<"prerequisites">>)

\* no DeploymentValidator call in progress
IdleValidator ==
    [pc |-> "idle", customer_name |-> [len |-> 0, legal |-> FALSE], environment |-> "dev",
     config_raised |-> FALSE, artifacts_raised |-> FALSE,
     terraform |-> "zero", has_env_vars |-> FALSE, az |-> "zero",
     result |-> ReadinessResult(FALSE, <<>>, <<>>, <<>>),
     prereq_check |-> [check |-> PrerequisiteCheck, ran |-> <<>>]]

-----------------------------------------------------------------------------
(* loader.py: load_defaults called by the pool's workers on the one
   ConfigLoader of the orchestrator (orchestrator.py 139-142, 483-488).  Each
   worker runs lines 84-106 statement by statement; nothing in ConfigLoader
   serializes them.  A dict object is named by the worker that built it. *)

Workers == 1..max_workers

None == 0

\* ConfigLoader.__init__ 61-64, and the workers before their calls
IdleSharedLoader ==
    [defaults_cache |-> None,
     pc |-> [t \in Workers |-> "idle"],
     returned |-> [t \in Workers |-> None],
     reads |-> 0,          \* ghost: how often the default files were read
     assignments |-> 0]    \* ghost: how often _defaults_cache was assigned

-----------------------------------------------------------------------------
(* The state machine *)

Ops ==
    {"deployCustomer", "destroyDeployment", "planDeployment", "getDeploymentStatus",
     "validateTerraformConfig", "constructValidationResult", "deployMany", "resolve",
     "merge", "checkReadiness", "checkPrerequisites", "loadDefaults"}

\* customer lists longer than the executor's pool
MaxPoolCustomers == 4

\* the operations on one customer/environment
SingleOps == {"deployCustomer", "destroyDeployment", "planDeployment", "getDeploymentStatus"}

BatchIdle ==
    /\ customers = <<>>
    /\ parallel = FALSE
    /\ continue_on_error = FALSE
    /\ cli_mode = "library"
    /\ batch_pc = "idle"
    /\ batch_result = BatchDeploymentResult(0)
    /\ futures = <<>>
    /\ idx = 0
    /\ yielded = {}
    /\ attempted = <<>>
    /\ at_failure = NoFailure
    /\ adapter_calls = <<>>
    /\ worker_raised = {}

Init ==
    /\ op \in Ops
    /\ tf_state \in IF op \in SingleOps THEN TfStates ELSE {NoState}
    /\ status_call = IdleStatusCall
    /\ loader = IdleLoader
    /\ IF op = "loadDefaults"
       THEN \E calling \in SUBSET Workers :
               /\ calling # {}
               /\ shared_loader = [IdleSharedLoader EXCEPT
                      !.pc = [t \in Workers |-> IF t \in calling THEN "test" ELSE "idle"]]
       ELSE shared_loader = IdleSharedLoader
    /\ IF op \in {"checkReadiness", "checkPrerequisites"}
       THEN \E t \in RunOutcomes, e \in BOOLEAN, az \in RunOutcomes :
               \/ /\ op = "checkPrerequisites"
                  /\ validator = [IdleValidator EXCEPT !.pc = "prerequisites", !.terraform = t,
                                                       !.has_env_vars = e, !.az = az]
               \/ /\ op = "checkReadiness"
                  /\ az = "zero"
                  /\ \E c \in CustomerNames, env \in EnvironmentNames, cr \in BOOLEAN, ar \in BOOLEAN :
                        validator = [IdleValidator EXCEPT !.pc = "readiness", !.terraform = t,
                                                         !.has_env_vars = e, !.az = az,
                                                         !.customer_name = c, !.environment = env,
                                                         !.config_raised = cr,
                                                         !.artifacts_raised = ar]
       ELSE validator = IdleValidator
    /\ IF op = "resolve"
       THEN \E a \in ArchitectureFiles, c \in CustomerBases,
               d \in EnvironmentDefaults, o \in EnvironmentOverrides :
               cfg = [IdleResolve EXCEPT !.pc = "load", !.call_no = 1,
                                         !.architecture_file = a,
                                         !.customer_base = c, !.env_defaults = d,
                                         !.env_override = o]
       ELSE cfg = IdleResolve
    /\ IF op = "merge"
       THEN \E L1 \in Layers(MaxDepth, "x"), L2 \in Layers(MaxDepth, "y") :
               /\ heap = Store(<<"L1">>, L1) @@ Store(<<"L2">>, L2)
               /\ merge_call = [IdleMerge EXCEPT !.pc = "call", !.L1 = L1, !.L2 = L2,
                                                !.given = heap]
       ELSE /\ merge_call = IdleMerge
            /\ heap = NoObjects
    /\ \/ /\ op = "deployCustomer"
          /\ \E dry_run \in BOOLEAN : call = deploy_customer(1, dry_run)
          /\ BatchIdle
       \/ /\ op = "destroyDeployment"
          /\ call = NewCall(1, DESTROYING, FALSE, "destroy")
          /\ BatchIdle
       \/ /\ op = "planDeployment"
          /\ call = NewCall(1, NOT_DEPLOYED, FALSE, "plan_only")
          /\ BatchIdle
       \/ /\ op = "getDeploymentStatus"
          /\ call = NewCall(1, NOT_DEPLOYED, FALSE, "returned")
          /\ BatchIdle
       \/ /\ op \in {"resolve", "merge", "checkReadiness", "checkPrerequisites", "loadDefaults"}
          /\ call = IdleFrame
          /\ BatchIdle
       \/ /\ op = "validateTerraformConfig"
          /\ call = NewCall(0, NOT_DEPLOYED, FALSE, "validate")
          /\ BatchIdle
       \/ /\ op = "constructValidationResult"
          /\ call = NewCall(0, NOT_DEPLOYED, FALSE, "construct")
          /\ BatchIdle
       \/ /\ op = "deployMany"
          /\ call = IdleFrame
          /\ cli_mode \in {"library", "cli", "cli_dry_run"}
          /\ \E n \in 0..MaxCustomers :
                /\ cli_mode # "library" => n > 0
                /\ customers = [i \in 1..n |-> i]
                /\ adapter_calls = [i \in 1..n |-> <<>>]
          /\ parallel \in BOOLEAN
          /\ continue_on_error \in BOOLEAN
          /\ batch_pc = IF cli_mode = "library" THEN "entry" ELSE "cli"
          /\ batch_result = BatchDeploymentResult(0)
          /\ futures = <<>>
          /\ idx = 0
          /\ yielded = {}
          /\ attempted = <<>>
          /\ at_failure = NoFailure
          /\ worker_raised = {}

\* the collaborator operations invoked in this step
NewCalls == SubSeq(call'.calls, Len(call.calls) + 1, Len(call'.calls))

\* what the step's adapter operations do to the Terraform state
TerraformEffects == tf_state' \in TfAfter(tf_state, NewCalls)

(* deploy_customer, one phase per step *)

Validate ==
    /\ op = "deployCustomer" /\ call.pc = "validation"
    /\ call' \in Phase1Validation(call, FullWorld)
    /\ TerraformEffects
    /\ UNCHANGED <<op, batch_vars, status_call, config_vars, validator, shared_loader>>

Plan ==
    /\ op = "deployCustomer" /\ call.pc = "planning"
    /\ call' \in Phase2Planning(call, FullWorld)
    /\ TerraformEffects
    /\ UNCHANGED <<op, batch_vars, status_call, config_vars, validator, shared_loader>>

Deploy ==
    /\ op = "deployCustomer" /\ call.pc = "infrastructure"
    /\ call' \in Phase3Infrastructure(call, FullWorld)
    /\ TerraformEffects
    /\ UNCHANGED <<op, batch_vars, status_call, config_vars, validator, shared_loader>>

Verify ==
    /\ op = "deployCustomer" /\ call.pc = "verification"
    /\ call' \in Phase4Verification(call, FullWorld)
    /\ TerraformEffects
    /\ UNCHANGED <<op, batch_vars, status_call, config_vars, validator, shared_loader>>

GetOutputs ==
    /\ op = "deployCustomer" /\ call.pc = "outputs"
    /\ call' \in Phase5Outputs(call, FullWorld)
    /\ TerraformEffects
    /\ UNCHANGED <<op, batch_vars, status_call, config_vars, validator, shared_loader>>

Destroy ==
    /\ op = "destroyDeployment" /\ call.pc = "destroy"
    /\ call' \in destroy_deployment(call, FullWorld)
    /\ TerraformEffects
    /\ UNCHANGED <<op, batch_vars, status_call, config_vars, validator, shared_loader>>

(* plan_deployment called on its own; its DeploymentException goes to the caller *)

PlanDeployment ==
    /\ op = "planDeployment" /\ call.pc = "plan_only"
    /\ \E out \in plan_deployment(FullWorld) :
          call' = Return([Called(call, out.calls) EXCEPT
                            !.produced = @ \cup out.constructed,
                            !.prereq = out.prereq,
                            !.raised = IF out.kind = "raise" THEN Append(@, out.exc) ELSE @,
                            !.planning = IF out.kind = "raise" THEN "raised"
                                         ELSE IF out.validation_result.success THEN "ok" ELSE "failed",
                            !.escaped = out.kind = "raise"])
    /\ TerraformEffects
    /\ UNCHANGED <<op, batch_vars, status_call, config_vars, validator, shared_loader>>

(* get_deployment_status, on its own or after another operation returned *)

GetDeploymentStatus ==
    /\ op \in SingleOps /\ call.pc = "returned"
    /\ status_call.pc = "idle"
    /\ \E o \in {"ok", "show_failed", "raise"} :
          LET state_info == get_terraform_state(tf_state, o)
          IN  status_call' = [pc |-> "returned", state_info |-> state_info,
                              status |-> get_deployment_status(state_info)]
    /\ UNCHANGED <<op, call, batch_vars, tf_state, config_vars, validator, shared_loader>>

ValidateTerraformConfig ==
    /\ op = "validateTerraformConfig" /\ call.pc = "validate"
    /\ \E vr \in {validate_terraform_config(rc, <<"stderr">>, ds) :
                        rc \in ReturnCodes, ds \in DiagnosticLists}
                 \cup {validate_terraform_config_raised} :
          call' = Return([Called(call, <<"validate">>) EXCEPT !.produced = {vr}])
    /\ TerraformEffects
    /\ UNCHANGED <<op, batch_vars, status_call, config_vars, validator, shared_loader>>

(* helpers.deep_merge called on two dictionaries *)

DeepMerge ==
    /\ op = "merge" /\ merge_call.pc = "call"
    /\ heap' = Allocate(heap, deep_merge(heap, merge_call.dict1, merge_call.dict2, <<"R">>))
    /\ merge_call' = [merge_call EXCEPT !.pc = "returned", !.result = <<"R">>]
    /\ UNCHANGED <<orchestrator_vars, cfg, loader>>

(* the caller changes the dictionary deep_merge returned *)

MutateMerged ==
    /\ op = "merge" /\ merge_call.pc = "returned"
    /\ heap' \in Mutations(heap, merge_call.result)
    /\ merge_call' = [merge_call EXCEPT !.pc = "mutated"]
    /\ UNCHANGED <<orchestrator_vars, cfg, loader>>

\* mutant of load_error: a failure of load_environment_override is swallowed
load_error_of_base_only(base, override) ==
    CASE base = "not_found" -> "FileNotFoundError"
      [] base = "schema_violation" -> "ValidationError"
      [] OTHER -> "none"

\* load_merged_config 223-224 with 254-259: the exception of the first of
\* load_customer_base and load_environment_override that fails is raised again
load_error(base, override) ==
    CASE base = "not_found" -> "FileNotFoundError"
      [] base = "schema_violation" -> "ValidationError"
      [] override = "not_found" -> "FileNotFoundError"
      [] override = "schema_violation" -> "ValidationError"
      [] OTHER -> "none"

(* ConfigLoader.load_merged_config: 222-224, loading the layers *)

ResolveLoad ==
    /\ op = "resolve" /\ cfg.pc = "load"
    /\ \E defaults \in {"ok", "raise"}, base \in LoadOutcomes, override \in LoadOutcomes :
          LET n == ToString(cfg.call_no)
              as_before(outcome, known) == known = "unknown" \/ outcome = known
              ld == load_defaults(loader, heap, cfg.architecture_file, cfg.env_defaults, defaults)
              read_defaults == loader.defaults_cache = "None"
              failed(kind, what, seen) ==
                /\ cfg' = [cfg EXCEPT !.pc = "returned", !.outcomes = seen,
                                      !.error = [kind |-> kind, msg |-> <<what>>, reported |-> {}]]
                /\ loader' = [ld.loader EXCEPT !.returned =
                                Append(@, [kind |-> kind, value |-> EmptyTree, root |-> <<>>])]
                /\ heap' = ld.heap
              seen1 == IF read_defaults THEN [cfg.outcomes EXCEPT !.defaults = defaults]
                       ELSE cfg.outcomes
              seen2 == [seen1 EXCEPT !.base = base]
              seen3 == [seen2 EXCEPT !.override = override]
          IN  /\ IF read_defaults THEN as_before(defaults, cfg.outcomes.defaults)
                 ELSE defaults = "ok"
              /\ IF ld.raised
                 THEN base = "ok" /\ override = "ok" /\ failed("DefaultsError", "defaults", seen1)
                 ELSE /\ as_before(base, cfg.outcomes.base)
                      /\ IF base # "ok" THEN override = "ok"
                         ELSE as_before(override, cfg.outcomes.override)
                      /\ IF load_error(base, override) # "none"
                         THEN failed(load_error(base, override),
                                     IF base # "ok" THEN "customer base" ELSE "environment override",
                                     IF base # "ok" THEN seen2 ELSE seen3)
                         ELSE /\ cfg' = [cfg EXCEPT !.pc = "merge", !.outcomes = seen3]
                              /\ loader' = ld.loader
                              /\ heap' = Allocate(ld.heap,
                                    Store(<<"base", n>>, cfg.customer_base)
                                    @@ Store(<<"override", n>>, cfg.env_override))
    /\ UNCHANGED <<orchestrator_vars, merge_call>>

\* the dicts the loader and its callers still hold
Held(ld) ==
    (IF ld.defaults_cache = "None" THEN {} ELSE {DefaultsArchitecture, DefaultsEnvironments})
    \cup {ld.returned[i].root : i \in {j \in 1..Len(ld.returned) : ld.returned[j].root # <<>>}}

(* load_merged_config 226-242: the merges and the environment sub-tree *)

ResolveMerge ==
    /\ op = "resolve" /\ cfg.pc = "merge"
    /\ LET n == ToString(cfg.call_no)
           merged == merge_layers(heap, DefaultsArchitecture, <<"base", n>>,
                                  DefaultsEnvironments, <<"override", n>>, <<"merged", n>>)
           injected == inject_environment(merged, <<"merged", n>>, cfg.environment,
                                          <<"override", n>>, <<"environment", n>>)
       IN  /\ heap' = Live(injected, Held(loader) \cup {<<"merged", n>>})
           /\ cfg' = [cfg EXCEPT !.merged_config = Read(injected, <<"merged", n>>),
                                 !.result = <<"merged", n>>,
                                 !.merges = 4,
                                 !.pc = "validate"]
    /\ UNCHANGED <<orchestrator_vars, loader, merge_call>>

(* load_merged_config 244-259: the completeness validation, return or raise *)

ResolveValidate ==
    /\ op = "resolve" /\ cfg.pc = "validate"
    /\ LET error == validate_merged_config(cfg.merged_config)
           ld == [loader EXCEPT
                    !.returned = Append(@,
                        IF error.kind = "ok"
                        THEN [kind |-> "ok", value |-> cfg.merged_config, root |-> cfg.result]
                        ELSE [kind |-> error.kind, value |-> EmptyTree, root |-> <<>>])]
       IN  /\ cfg' = [cfg EXCEPT !.error = error, !.pc = "returned"]
           /\ loader' = ld
           /\ heap' = Live(heap, Held(ld))
    /\ UNCHANGED <<orchestrator_vars, merge_call>>

(* the caller calls load_merged_config again, for the same customer and environment *)

ResolveAgain ==
    /\ op = "resolve" /\ cfg.pc = "returned" /\ cfg.call_no < MaxResolves
    /\ cfg' = [cfg EXCEPT !.pc = "load", !.call_no = @ + 1,
                          !.merged_config = EmptyTree, !.result = <<>>, !.merges = 0,
                          !.error = IdleResolve.error]
    /\ UNCHANGED <<orchestrator_vars, loader, heap, merge_call>>

\* the caller holds a returned configuration it has not touched, the files are
\* as they were, and another call can follow
Between ==
    /\ op = "resolve" /\ cfg.pc = "returned" /\ cfg.call_no < MaxResolves
    /\ loader.touched = "nothing" /\ ~cfg.sources_changed

(* the caller changes the configuration load_merged_config returned *)

MutateResult ==
    /\ Between /\ cfg.error.kind = "ok"
    /\ heap' \in Mutations(heap, cfg.result)
    /\ loader' = [loader EXCEPT !.touched = "mutated"]
    /\ UNCHANGED <<orchestrator_vars, cfg, merge_call>>

(* the caller passes the returned configuration to prepare_template_variables *)

PrepareTemplateVariables ==
    /\ Between /\ cfg.error.kind = "ok"
    /\ heap' = prepare_template_variables(heap, cfg.result, cfg.environment, <<"variables">>)
    /\ loader' = [loader EXCEPT !.touched = "prepared"]
    /\ UNCHANGED <<orchestrator_vars, cfg, merge_call>>

(* the caller changes the template variables prepare_template_variables returned *)

MutateVariables ==
    /\ op = "resolve" /\ cfg.pc = "returned" /\ loader.touched = "prepared"
    /\ <<"variables">> \in DOMAIN heap
    /\ heap' \in Mutations(heap, <<"variables">>)
    /\ loader' = [loader EXCEPT !.touched = "variables_mutated"]
    /\ UNCHANGED <<orchestrator_vars, cfg, merge_call>>

(* defaults/architecture.yaml or defaults/environments.yaml is rewritten *)

ChangeDefaults ==
    /\ Between
    /\ \E a \in ArchitectureFiles, d \in EnvironmentDefaults :
          /\ (a = cfg.architecture_file) # (d = cfg.env_defaults)
          /\ cfg' = [cfg EXCEPT !.architecture_file = a, !.env_defaults = d,
                                !.outcomes.defaults = "unknown",
                                !.sources_changed = TRUE]
    /\ UNCHANGED <<orchestrator_vars, loader, heap, merge_call>>

(* a caller constructing a ValidationResult itself, as the tests do *)

ConstructValidationResult ==
    /\ op = "constructValidationResult" /\ call.pc = "construct"
    /\ \E success \in BOOLEAN, errors \in ErrorLists, warnings \in WarningLists :
          call' = Return([call EXCEPT !.produced = {ValidationResult(success, errors, warnings)}])
    /\ TerraformEffects
    /\ UNCHANGED <<op, batch_vars, status_call, config_vars, validator, shared_loader>>

(* validator.py: the two entry points of DeploymentValidator *)

ValidatePrerequisites ==
    /\ op = "checkPrerequisites" /\ validator.pc = "prerequisites"
    /\ validator' = [validator EXCEPT
            !.prereq_check = validate_prerequisites(validator.terraform, validator.has_env_vars,
                                                    validator.az),
            !.pc = "returned"]
    /\ UNCHANGED <<op, call, batch_vars, tf_state, status_call, config_vars, shared_loader>>

ValidateDeploymentReadiness ==
    /\ op = "checkReadiness" /\ validator.pc = "readiness"
    /\ validator' = [validator EXCEPT
            !.result = validator_validate_deployment_readiness(validator),
            !.prereq_check = validate_prerequisites(validator.terraform, validator.has_env_vars,
                                                    validator.az),
            !.pc = "returned"]
    /\ UNCHANGED <<op, call, batch_vars, tf_state, status_call, config_vars, shared_loader>>

(* load_defaults, one statement of one worker per step *)

\* 84-85: the test of the cache, and the return of the cached dict
TestCache(t) ==
    /\ op = "loadDefaults" /\ shared_loader.pc[t] = "test"
    /\ shared_loader' =
          IF shared_loader.defaults_cache # None
          THEN [shared_loader EXCEPT !.pc[t] = "returned",
                                     !.returned[t] = shared_loader.defaults_cache]
          ELSE [shared_loader EXCEPT !.pc[t] = "read"]
    /\ UNCHANGED <<op, call, batch_vars, tf_state, status_call, config_vars, validator>>

\* 88-101: both files are read and the defaults dict is built
ReadDefaults(t) ==
    /\ op = "loadDefaults" /\ shared_loader.pc[t] = "read"
    /\ shared_loader' = [shared_loader EXCEPT !.pc[t] = "assign", !.reads = @ + 1]
    /\ UNCHANGED <<op, call, batch_vars, tf_state, status_call, config_vars, validator>>

\* 103-106: self._defaults_cache = defaults; return defaults
AssignCache(t) ==
    /\ op = "loadDefaults" /\ shared_loader.pc[t] = "assign"
    /\ shared_loader' = [shared_loader EXCEPT !.defaults_cache = t,
                                              !.assignments = @ + 1,
                                              !.pc[t] = "returned",
                                              !.returned[t] = t]
    /\ UNCHANGED <<op, call, batch_vars, tf_state, status_call, config_vars, validator>>

(* batch_deploy.py deploy: 151-187 *)

CliDeploy ==
    /\ op = "deployMany" /\ batch_pc = "cli"
    /\ \E pre_validation_ok \in BOOLEAN :
          batch_pc' = IF ~continue_on_error /\ ~pre_validation_ok THEN "exit" ELSE "entry"
    /\ UNCHANGED <<op, call, customers, parallel, continue_on_error, cli_mode,
                   batch_result, futures, idx, yielded, attempted, at_failure, adapter_calls,
                   worker_raised, tf_state, status_call, config_vars, validator, shared_loader>>

(* deploy_multiple_customers 216-234, and the submissions of 485-488 *)

BatchEntry ==
    /\ op = "deployMany" /\ batch_pc = "entry"
    /\ batch_result' = BatchDeploymentResult(Len(customers))
    /\ \/ /\ parallel
          /\ futures' = [i \in 1..Len(customers) |-> NewFuture(customers[i])]
          /\ batch_pc' = IF Len(customers) = 0 THEN "shutdown" ELSE "as_completed"
          /\ idx' = idx
       \/ \* the first executor.submit raises (RuntimeError: can't start new
          \* thread); the exception leaves _deploy_customers_parallel for 246
          /\ parallel /\ Len(customers) > 0
          /\ futures' = futures
          /\ batch_pc' = "except"
          /\ idx' = idx
       \/ /\ ~parallel
          /\ futures' = futures
          /\ idx' = 1
          /\ batch_pc' = IF Len(customers) = 0 THEN "complete" ELSE "sequential"
    /\ UNCHANGED <<op, call, customers, parallel, continue_on_error, cli_mode,
                   yielded, attempted, at_failure, adapter_calls,
                   worker_raised, tf_state, status_call, config_vars, validator, shared_loader>>

(* _deploy_customers_sequential: one iteration of the for loop, 519-539 *)

SequentialIteration ==
    /\ op = "deployMany" /\ batch_pc = "sequential"
    /\ \E outcome \in BatchRuns(customers[idx]) :
          /\ attempted' = Append(attempted, customers[idx])
          /\ adapter_calls' = [adapter_calls EXCEPT ![idx] = outcome.calls]
          /\ worker_raised' = IF outcome.escaped THEN worker_raised \cup {idx} ELSE worker_raised
          /\ batch_result' = record_outcome(batch_result, customers[idx], outcome)
          /\ IF sequential_breaks(outcome, continue_on_error) \/ idx = Len(customers)
             THEN batch_pc' = "complete" /\ idx' = idx
             ELSE batch_pc' = "sequential" /\ idx' = idx + 1
    /\ UNCHANGED <<op, call, customers, parallel, continue_on_error, cli_mode,
                   futures, yielded, at_failure, tf_state, status_call, config_vars, validator, shared_loader>>

(* ThreadPoolExecutor workers: take the oldest queued future that was not
   cancelled, run deploy_customer, set the future's result *)

WorkerStart(i) ==
    /\ op = "deployMany" /\ parallel
    /\ i \in DOMAIN futures /\ Pending(i)
    /\ \A j \in 1..(i - 1) : ~Pending(j)
    /\ idle_worker(Running)
    /\ futures' = [futures EXCEPT ![i].state = "running"]
    /\ attempted' = Append(attempted, customers[i])
    /\ UNCHANGED <<op, call, customers, parallel, continue_on_error, cli_mode,
                   batch_pc, batch_result, idx, yielded, at_failure, adapter_calls,
                   worker_raised, tf_state, status_call, config_vars, validator, shared_loader>>

WorkerFinish(i) ==
    /\ op = "deployMany" /\ parallel
    /\ i \in Running
    /\ \E outcome \in BatchRuns(customers[i]) :
          /\ futures' = [futures EXCEPT ![i] = [state |-> "finished", outcome |-> outcome]]
          /\ adapter_calls' = [adapter_calls EXCEPT ![i] = outcome.calls]
          /\ worker_raised' = IF outcome.escaped THEN worker_raised \cup {i} ELSE worker_raised
    /\ UNCHANGED <<op, call, customers, parallel, continue_on_error, cli_mode,
                   batch_pc, batch_result, idx, yielded, attempted, at_failure,
                   tf_state, status_call, config_vars, validator, shared_loader>>

(* _deploy_customers_parallel: one iteration of `for future in as_completed`, 491-514 *)

Collect(i) ==
    /\ op = "deployMany" /\ batch_pc = "as_completed"
    /\ i \in DOMAIN futures /\ futures[i].state = "finished" /\ i \notin yielded
    /\ yielded' = yielded \cup {i}
    /\ batch_result' = record_outcome(batch_result, customers[i], futures[i].outcome)
    /\ IF parallel_breaks(futures[i].outcome, continue_on_error)
       THEN /\ batch_pc' = "cancel"
            /\ idx' = 1
            /\ at_failure' = [seen |-> TRUE,
                              pending |-> {j \in DOMAIN futures : Pending(j)},
                              running |-> Running]
       ELSE /\ batch_pc' = IF yielded' = DOMAIN futures THEN "shutdown" ELSE "as_completed"
            /\ idx' = idx
            /\ at_failure' = at_failure
    /\ UNCHANGED <<op, call, customers, parallel, continue_on_error, cli_mode,
                   futures, attempted, adapter_calls,
                   worker_raised, tf_state, status_call, config_vars, validator, shared_loader>>

(* 501-504: one iteration of the cancel loop; cancel() only takes a future
   that has not started *)

CancelRemaining ==
    /\ op = "deployMany" /\ batch_pc = "cancel"
    /\ futures' = [futures EXCEPT ![idx] = cancel(@)]
    /\ IF idx = Len(customers)
       THEN batch_pc' = "shutdown" /\ idx' = idx
       ELSE batch_pc' = "cancel" /\ idx' = idx + 1
    /\ UNCHANGED <<op, call, customers, parallel, continue_on_error, cli_mode,
                   batch_result, yielded, attempted, at_failure, adapter_calls,
                   worker_raised, tf_state, status_call, config_vars, validator, shared_loader>>

(* leaving `with ThreadPoolExecutor(...)`: shutdown(wait=True) *)

ExecutorShutdown ==
    /\ op = "deployMany" /\ batch_pc = "shutdown"
    /\ \A i \in DOMAIN futures : Done(i)
    /\ batch_pc' = "complete"
    /\ UNCHANGED <<op, call, customers, parallel, continue_on_error, cli_mode,
                   batch_result, futures, idx, yielded, attempted, at_failure, adapter_calls,
                   worker_raised, tf_state, status_call, config_vars, validator, shared_loader>>

(* deploy_multiple_customers 236-244 *)

BatchComplete ==
    /\ op = "deployMany" /\ batch_pc = "complete"
    /\ batch_result' = [batch_result EXCEPT !.completed_at = "set"]
    /\ batch_pc' = "returned"
    /\ UNCHANGED <<op, call, customers, parallel, continue_on_error, cli_mode,
                   futures, idx, yielded, attempted, at_failure, adapter_calls,
                   worker_raised, tf_state, status_call, config_vars, validator, shared_loader>>

(* deploy_multiple_customers 246-252: except Exception *)

BatchExcept ==
    /\ op = "deployMany" /\ batch_pc = "except"
    /\ batch_result' = [batch_result EXCEPT !.completed_at = "set"]
    /\ batch_pc' = "returned_from_except"
    /\ UNCHANGED <<op, call, customers, parallel, continue_on_error, cli_mode,
                   futures, idx, yielded, attempted, at_failure, adapter_calls,
                   worker_raised, tf_state, status_call, config_vars, validator, shared_loader>>

Next ==
    \/ Validate
    \/ Plan
    \/ Deploy
    \/ Verify
    \/ GetOutputs
    \/ Destroy
    \/ PlanDeployment
    \/ GetDeploymentStatus
    \/ DeepMerge
    \/ MutateMerged
    \/ ResolveLoad
    \/ ResolveMerge
    \/ ResolveValidate
    \/ ResolveAgain
    \/ MutateResult
    \/ PrepareTemplateVariables
    \/ MutateVariables
    \/ ChangeDefaults
    \/ ValidateTerraformConfig
    \/ ConstructValidationResult
    \/ ValidatePrerequisites
    \/ ValidateDeploymentReadiness
    \/ \E t \in Workers : TestCache(t)
    \/ \E t \in Workers : ReadDefaults(t)
    \/ \E t \in Workers : AssignCache(t)
    \/ CliDeploy
    \/ BatchEntry
    \/ SequentialIteration
    \/ \E i \in 1..MaxCustomers : WorkerStart(i)
    \/ \E i \in 1..MaxCustomers : WorkerFinish(i)
    \/ \E i \in 1..MaxCustomers : Collect(i)
    \/ CancelRemaining
    \/ ExecutorShutdown
    \/ BatchComplete
    \/ BatchExcept

Spec == Init /\ [][Next]_vars

(* deploy_multiple_customers called by a library client with up to
   MaxPoolCustomers customers: more submitted calls than pool workers *)

PoolInit ==
    /\ op = "deployMany"
    /\ call = IdleFrame
    /\ tf_state = NoState
    /\ status_call = IdleStatusCall
    /\ validator = IdleValidator
    /\ shared_loader = IdleSharedLoader
    /\ loader = IdleLoader
    /\ cfg = IdleResolve
    /\ merge_call = IdleMerge
    /\ heap = NoObjects
    /\ cli_mode = "library"
    /\ \E n \in 0..MaxPoolCustomers :
          /\ customers = [i \in 1..n |-> i]
          /\ adapter_calls = [i \in 1..n |-> <<>>]
    /\ parallel \in BOOLEAN
    /\ continue_on_error \in BOOLEAN
    /\ batch_pc = "entry"
    /\ batch_result = BatchDeploymentResult(0)
    /\ futures = <<>>
    /\ idx = 0
    /\ yielded = {}
    /\ attempted = <<>>
    /\ at_failure = NoFailure
    /\ worker_raised = {}

PoolNext ==
    \/ BatchEntry
    \/ SequentialIteration
    \/ \E i \in 1..MaxPoolCustomers : WorkerStart(i)
    \/ \E i \in 1..MaxPoolCustomers : WorkerFinish(i)
    \/ \E i \in 1..MaxPoolCustomers : Collect(i)
    \/ CancelRemaining
    \/ ExecutorShutdown
    \/ BatchComplete
    \/ BatchExcept

PoolSpec == PoolInit /\ [][PoolNext]_vars

(* deploy_customer and deploy_multiple_customers called by a library client,
   with the scheduling the threads get: the calling thread keeps running
   deploy_customer, the coordinator thread keeps running its loops, and every
   pool worker takes queued work and finishes the call it runs (each
   collaborator call returns or raises in finite time) *)

LiveInit == Init /\ op \in {"deployCustomer", "deployMany"} /\ cli_mode = "library"

LiveNext ==
    \/ Validate
    \/ Plan
    \/ Deploy
    \/ Verify
    \/ GetOutputs
    \/ BatchEntry
    \/ SequentialIteration
    \/ \E i \in 1..MaxCustomers : WorkerStart(i)
    \/ \E i \in 1..MaxCustomers : WorkerFinish(i)
    \/ \E i \in 1..MaxCustomers : Collect(i)
    \/ CancelRemaining
    \/ ExecutorShutdown
    \/ BatchComplete
    \/ BatchExcept

Fairness ==
    /\ WF_vars(Validate \/ Plan \/ Deploy \/ Verify \/ GetOutputs)
    /\ WF_vars(BatchEntry \/ SequentialIteration \/ (\E i \in 1..MaxCustomers : Collect(i))
                  \/ CancelRemaining \/ ExecutorShutdown \/ BatchComplete \/ BatchExcept)
    /\ \A i \in 1..MaxCustomers : WF_vars(WorkerStart(i)) /\ WF_vars(WorkerFinish(i))

LiveSpec == LiveInit /\ [][LiveNext]_vars /\ Fairness

-----------------------------------------------------------------------------
(* Properties *)

InDeploy == op = "deployCustomer"

Returned == call.pc = "returned"

Invoked(o) == \E i \in 1..Len(call.calls) : call.calls[i] = o

HasPhase(ph) == \E i \in 1..Len(call.result.phases_completed) : call.result.phases_completed[i] = ph

\* message m occurs inside message e
Within(e, m) == \E i \in 1..Len(e) : i + Len(m) - 1 <= Len(e) /\ SubSeq(e, i, i + Len(m) - 1) = m

Names(results) == [k \in 1..Len(results) |-> results[k].customer_name]

BatchReturned == op = "deployMany" /\ batch_pc = "returned"

\* C1: a dry-run deploy_customer whose readiness validation and planning
\* validation both succeed returns status DEPLOYED, success true and phases
\* exactly [VALIDATION, PLANNING], and never invokes the adapter's init or apply.
C1_DryRunStopsAfterPlanning ==
    (InDeploy /\ call.dry_run /\ call.readiness = "ok" /\ call.planning = "ok") =>
        /\ Returned
        /\ call.result.status = DEPLOYED
        /\ call.result.success
        /\ call.result.phases_completed = <<VALIDATION, PLANNING>>
        /\ ~Invoked("init") /\ ~Invoked("apply")

C1_Witness ==
    InDeploy /\ Returned /\ call.dry_run /\ call.readiness = "ok" /\ call.planning = "ok"

InfraFailed == call.infra \in {"init_failed", "init_raised", "apply_failed", "apply_raised"}

\* C2: in a non-dry-run deploy_customer, when init or apply fails (returns an
\* unsuccessful result or raises), the returned result has success false,
\* status FAILED and a non-empty error list, neither INFRASTRUCTURE nor
\* ARTIFACTS is in phases_completed, and verification is not attempted.
C2_InfrastructureFailureFails ==
    (InDeploy /\ ~call.dry_run /\ InfraFailed) =>
        /\ ~HasPhase(INFRASTRUCTURE) /\ ~HasPhase(ARTIFACTS)
        /\ ~Invoked("getOutputs")
        /\ Returned
        /\ ~call.result.success
        /\ call.result.status = FAILED
        /\ call.result.errors # <<>>

Recorded(i) ==
    \/ \E k \in 1..success_count(batch_result) :
          batch_result.successful_deployments[k].customer_name = customers[i]
    \/ \E k \in 1..failure_count(batch_result) :
          batch_result.failed_deployments[k].customer_name = customers[i]

\* C4: in parallel mode with continue_on_error false, when the first failed
\* result is collected, the work that has not started is cancelled, and every
\* deployment in flight at that moment runs to completion and has its result
\* recorded in the successful or the failed list of the returned BatchResult.
C4_InFlightResultsRecorded ==
    (BatchReturned /\ parallel /\ ~continue_on_error /\ at_failure.seen) =>
        /\ \A i \in at_failure.pending : futures[i].state = "cancelled"
        /\ \A i \in at_failure.running : futures[i].state = "finished" /\ Recorded(i)

\* C5: every DeploymentResult returned by deploy_customer has completed_at and
\* deployment_time set, and they are assigned exactly once.
C5_FinalizedOnceAtReturn ==
    (InDeploy /\ Returned) =>
        /\ call.result.completed_at = "set"
        /\ call.result.deployment_time = "set"
        /\ call.finalized = 1

\* C6: when the readiness check answers success = false, deploy_customer
\* returns at once with status FAILED, success false, an error recorded and no
\* phase completed, and nothing after the readiness check is invoked.
C6_ValidationFailureReturnsAtOnce ==
    (InDeploy /\ call.readiness = "failed") =>
        /\ Returned
        /\ call.result.status = FAILED
        /\ ~call.result.success
        /\ Len(call.result.errors) = 1
        /\ call.result.phases_completed = <<>>
        /\ call.calls = <<"checkReadiness">>

C6_Witness == InDeploy /\ call.readiness = "failed" /\ Returned

\* C7: in sequential mode with continue_on_error false, customers are deployed
\* one at a time in input order; after the first failure no later customer is
\* attempted or listed; the successful list is exactly the customers before
\* the first failure, in input order, and the failed list is exactly the first
\* failing customer.
C7_SequentialStopsAtFirstFailure ==
    (op = "deployMany" /\ ~parallel /\ ~continue_on_error
        /\ batch_pc \in {"sequential", "complete", "returned"}) =>
        LET sc == success_count(batch_result)
            fc == failure_count(batch_result)
        IN  /\ attempted = SubSeq(customers, 1, Len(attempted))
            /\ Names(batch_result.successful_deployments) = SubSeq(customers, 1, sc)
            /\ \A k \in 1..sc : batch_result.successful_deployments[k].success
            /\ fc <= 1
            /\ fc = 0 => Len(attempted) = sc
            /\ fc = 1 =>
                  /\ batch_result.failed_deployments[1].customer_name = customers[sc + 1]
                  /\ ~batch_result.failed_deployments[1].success
                  /\ Len(attempted) = sc + 1
                  /\ batch_pc # "sequential"
            /\ \A i \in DOMAIN customers : i > Len(attempted) => adapter_calls[i] = <<>>

C7_Witness ==
    /\ BatchReturned /\ ~parallel /\ ~continue_on_error
    /\ success_count(batch_result) >= 1
    /\ failure_count(batch_result) = 1
    /\ Len(customers) > success_count(batch_result) + 1

\* C8: deploy_customer and destroy_deployment never let an exception escape,
\* and when an exception of a collaborator whose failure is a hard failure
\* (readiness check, artifact discovery, prerequisite check, configuration
\* resolve, adapter plan, init, apply, destroy) was caught, the returned result
\* is FAILED and carries the exception's message in its errors.  (Exceptions of
\* getOutputs, which the design turns into warnings, are left out here.)
C8_CaughtExceptionFails ==
    (op \in {"deployCustomer", "destroyDeployment"}) =>
        /\ ~call.escaped
        /\ Returned =>
              \A i \in 1..Len(call.raised) :
                  call.raised[i] # ExcMsg("getOutputs") =>
                      /\ call.result.status = FAILED
                      /\ ~call.result.success
                      /\ \E k \in 1..Len(call.result.errors) :
                            Within(call.result.errors[k], call.raised[i])

\* C9: when the batch deploy command runs with --dry-run, the adapter's init
\* and apply are invoked for no customer, in sequential and in parallel mode.
C9_BatchDryRunAppliesNothing ==
    (op = "deployMany" /\ cli_mode = "cli_dry_run") =>
        \A i \in DOMAIN adapter_calls :
            \A k \in 1..Len(adapter_calls[i]) : adapter_calls[i][k] \notin {"init", "apply"}

\* C10: every ValidationResult that is constructed (by the readiness check, by
\* planning, by the orchestrator's exception fallback, by the adapter's
\* configuration validation or directly) has success = (errors is empty).
C10_ValidationResultInvariant ==
    \A vr \in call.produced : vr.success = (vr.errors = <<>>)

\* a result whose error list is not empty is a failed one
ErrorsMeanFailed(r) == r.errors # <<>> => (~r.success /\ r.status = FAILED)

\* C11: add_error appends the error and sets success false and status FAILED;
\* every DeploymentResult of deploy_customer, destroy_deployment or
\* deploy_multiple_customers that has an error has success false and status FAILED.
C11_ErrorsImplyFailed ==
    /\ (op \in {"deployCustomer", "destroyDeployment"}) =>
          /\ ErrorsMeanFailed(call.result)
          /\ LET r == add_error(call.result, <<"E">>)
             IN  r.errors = Append(call.result.errors, <<"E">>) /\ ~r.success /\ r.status = FAILED
    /\ op = "deployMany" =>
          /\ \A k \in 1..success_count(batch_result) :
                ErrorsMeanFailed(batch_result.successful_deployments[k])
          /\ \A k \in 1..failure_count(batch_result) :
                ErrorsMeanFailed(batch_result.failed_deployments[k])

C11_Witness ==
    /\ op = "destroyDeployment" /\ Returned
    /\ call.result.errors # <<>>
    /\ call.raised = <<>>

\* how often customer c is found in a list of results
Occurrences(results, c) == Cardinality({k \in 1..Len(results) : results[k].customer_name = c})

IsSyntheticFailure(r, c) ==
    /\ r.customer_name = c
    /\ r.status = FAILED
    /\ ~r.success
    /\ r.errors = <<ExcMsg("deploy_customer")>>

\* C13: in both batch modes an exception raised by a customer's deploy_customer
\* becomes exactly one failed DeploymentResult of that customer (status FAILED,
\* success false, the exception's message its only error) in the failed list,
\* and deploy_multiple_customers returns its batch result.
C13_WorkerExceptionBecomesFailedResult ==
    (BatchReturned) =>
        \A i \in worker_raised :
            /\ Occurrences(batch_result.successful_deployments, customers[i]) = 0
            /\ Occurrences(batch_result.failed_deployments, customers[i]) = 1
            /\ \A k \in 1..failure_count(batch_result) :
                  batch_result.failed_deployments[k].customer_name = customers[i]
                      => IsSyntheticFailure(batch_result.failed_deployments[k], customers[i])

\* every customer's deployment ran in a worker and returned success
AllWorkersSucceeded ==
    /\ Len(futures) = Len(customers)
    /\ \A i \in DOMAIN futures :
          /\ futures[i].state = "finished"
          /\ ~futures[i].outcome.escaped
          /\ futures[i].outcome.result.success

\* C14: a parallel batch in which every customer's deployment succeeds returns,
\* in whatever order the workers complete, a batch result with overall_success
\* true, failure_count 0 and success_count the number of customers.
C14_ParallelAllSucceed ==
    (BatchReturned /\ parallel /\ AllWorkersSucceeded) =>
        /\ overall_success(batch_result)
        /\ failure_count(batch_result) = 0
        /\ success_count(batch_result) = Len(customers)
        /\ \A i \in DOMAIN customers :
              Occurrences(batch_result.successful_deployments, customers[i]) = 1

C14_Witness ==
    /\ BatchReturned /\ parallel /\ AllWorkersSucceeded
    /\ Len(customers) >= 2
    /\ batch_result.successful_deployments[1].customer_name = customers[2]

\* the canonical order of the prerequisite names
CanonicalPrereqs ==
    <<"terraform_available", "configuration_valid", "artifacts_present",
      "workspace_accessible", "credentials_valid">>

\* names is a non-empty subsequence of the canonical order, without repetition
InCanonicalOrder(names) ==
    /\ names # <<>>
    /\ \E pos \in [1..Len(names) -> 1..Len(CanonicalPrereqs)] :
          /\ \A i \in 1..Len(names) : names[i] = CanonicalPrereqs[pos[i]]
          /\ \A i \in 1..(Len(names) - 1) : pos[i] < pos[i + 1]

\* "Prerequisites not met: a, b, c"
PrereqError(names) == <<"Prerequisites not met: ">> \o Join(", ", AsMsgs(names))

\* C15: when the prerequisite check reports an unmet prerequisite during
\* planning, the plan's validation result is unsuccessful with one error naming
\* exactly the unmet prerequisites in the canonical order, and deploy_customer
\* stops at planning: status FAILED, phases_completed = [VALIDATION], those
\* names in its error, init and apply never invoked.
C15_UnmetPrerequisitesStopAtPlanning ==
    (InDeploy /\ call.prereq.checked /\ call.prereq.unmet # <<>>) =>
        /\ InCanonicalOrder(call.prereq.unmet)
        /\ ValidationResult(FALSE, <<PrereqError(call.prereq.unmet)>>, <<>>) \in call.produced
        /\ call.planning = "failed"
        /\ Returned
        /\ call.result.status = FAILED
        /\ ~call.result.success
        /\ call.result.phases_completed = <<VALIDATION>>
        /\ call.result.errors = << <<"Planning failed: ">> \o PrereqError(call.prereq.unmet) >>
        /\ ~Invoked("init") /\ ~Invoked("apply")

\* C16: plan_deployment invokes only artifact discovery, the prerequisite
\* check and the adapter's plan, never init, apply or destroy, so the Terraform
\* state is the same after a planning (successful, prerequisite-failing or
\* raising) as before it -- called on its own or as deploy_customer's phase 2.
C16_PlanningLeavesStateAlone ==
    [][((op = "planDeployment" /\ call.pc = "plan_only")
            \/ (op = "deployCustomer" /\ call.pc = "planning")) =>
          /\ tf_state' = tf_state
          /\ \A k \in 1..Len(NewCalls) :
                NewCalls[k] \in {"discover", "checkPrerequisites", "plan"}]_vars

C16_Witness ==
    /\ op = "planDeployment" /\ Returned
    /\ call.calls = <<"discover", "checkPrerequisites", "plan">>
    /\ call.planning = "failed"
    /\ tf_state.exists /\ tf_state.resource_count > 0

\* C17: destroy_deployment invokes the adapter's destroy exactly once and
\* nothing else; the result is NOT_DEPLOYED with success true when destroy
\* succeeds, and FAILED with success false and the adapter's errors copied
\* unchanged into the result's errors when destroy fails.
C17_DestroyOutcome ==
    (op = "destroyDeployment" /\ Returned) =>
        /\ call.calls = <<"destroy">>
        /\ call.destroy = "ok" =>
              /\ call.result.status = NOT_DEPLOYED
              /\ call.result.success
              /\ call.result.errors = <<>>
        /\ call.destroy = "fail" =>
              /\ call.result.status = FAILED
              /\ ~call.result.success
              /\ call.result.errors = TerraformDestroy("fail").errors
              /\ call.result.errors # <<>>

C17_Witness ==
    /\ op = "destroyDeployment" /\ Returned
    /\ call.destroy = "fail"
    /\ call.result.status = FAILED

\* C18: get_deployment_status answers DEPLOYED exactly when the adapter's
\* state report says exists with a resource count above zero, NOT_DEPLOYED
\* otherwise (no state, no resources, a raising adapter), never anything else,
\* whatever operation ran before and however it ended.
C18_StatusFromStateOnly ==
    status_call.pc = "returned" =>
        LET info == status_call.state_info
            deployed == info.kind = "return" /\ info.exists /\ info.resource_count > 0
        IN  /\ status_call.status \in {DEPLOYED, NOT_DEPLOYED}
            /\ (status_call.status = DEPLOYED) <=> deployed

C18_Witness ==
    /\ status_call.pc = "returned"
    /\ op = "deployCustomer" /\ call.result.status = DEPLOYED
    /\ status_call.state_info.exists /\ status_call.state_info.resource_count = 0
    /\ status_call.status = NOT_DEPLOYED

Absent == [kind |-> "absent", value |-> "", items |-> <<>>]

RECURSIVE NodeAt(_, _)
\* the node a tree holds at a path of keys
NodeAt(tree, path) ==
    IF Head(path) \notin DOMAIN tree THEN Absent
    ELSE IF Len(path) = 1 THEN tree[Head(path)]
    ELSE IF tree[Head(path)].kind = "map" THEN NodeAt(tree[Head(path)].items, Tail(path))
    ELSE Absent

RECURSIVE LeafPaths(_)
\* the paths at which a tree holds a scalar
LeafPaths(tree) ==
    UNION {IF tree[k].kind = "leaf" THEN {<<k>>}
           ELSE {<<k>> \o rest : rest \in LeafPaths(tree[k].items)} : k \in DOMAIN tree}

\* load_merged_config returned the merged configuration
Resolved == op = "resolve" /\ cfg.pc = "returned" /\ cfg.error.kind = "ok"

\* the layers in the order of increasing precedence the claim gives: global
\* defaults, environment-category defaults, customer base, environment override
LayersByClaimedPrecedence ==
    <<GetOrEmpty(cfg.architecture_file, "architecture").items,
      cfg.env_defaults, cfg.customer_base, cfg.env_override>>

\* C19: in the configuration load_merged_config returns, every leaf path that
\* more than one layer holds has the value of the highest layer holding it,
\* precedence increasing from global defaults over environment-category
\* defaults and customer base to the environment override.
C19_HighestPrecedenceLayerWins ==
    Resolved =>
        LET layers == LayersByClaimedPrecedence
            holders(path) == {i \in 1..4 : NodeAt(layers[i], path).kind = "leaf"}
        IN  \A path \in UNION {LeafPaths(layers[i]) : i \in 1..4} :
                Cardinality(holders(path)) > 1 =>
                    LET top == CHOOSE i \in holders(path) : \A j \in holders(path) : j <= i
                    IN  NodeAt(cfg.merged_config, path) = NodeAt(layers[top], path)

\* the completeness rules the composed configuration breaks
Violations(config) ==
    {<<"missing section", required_sections[i]>> :
        i \in {j \in 1..Len(required_sections) : required_sections[j] \notin DOMAIN config}}
    \cup {<<"empty", "customer.name">> : x \in {1} \cap
            {IF NodeAt(config, <<"customer">>).kind = "map"
                /\ Falsy(config["customer"].items, "name") THEN 1 ELSE 0}}
    \cup {<<"empty", "customer.prefix">> : x \in {1} \cap
            {IF NodeAt(config, <<"customer">>).kind = "map"
                /\ Falsy(config["customer"].items, "prefix") THEN 1 ELSE 0}}
    \cup {<<"empty", "capacity.fabric_capacity_id">> : x \in {1} \cap
            {IF NodeAt(config, <<"capacity">>).kind = "map"
                /\ Falsy(config["capacity"].items, "fabric_capacity_id") THEN 1 ELSE 0}}

\* C20: when the composed configuration breaks more than one completeness rule,
\* load_merged_config fails with an error that lists every one of them.
C20_EveryViolationListed ==
    (op = "resolve" /\ cfg.pc = "returned" /\ cfg.merges = 4
        /\ Cardinality(Violations(cfg.merged_config)) > 1) =>
        /\ cfg.error.kind = "ValueError"
        /\ Violations(cfg.merged_config) \subseteq cfg.error.reported

RECURSIVE KeyPaths(_)
\* the key paths of length 1..n over the keys of the merged dictionaries
KeyPaths(n) ==
    IF n = 1 THEN {<<k>> : k \in MergeKeys}
    ELSE KeyPaths(n - 1) \cup {Append(q, k) : q \in KeyPaths(n - 1), k \in MergeKeys}

\* deep_merge returned and its result has not been touched
Merged == op = "merge" /\ merge_call.pc = "returned"

\* the merge descends to a path when both arguments hold a dictionary at every
\* proper prefix of it
BothMapsAbove(path) ==
    \A n \in 1..(Len(path) - 1) :
        /\ NodeAt(merge_call.L1, SubSeq(path, 1, n)).kind = "map"
        /\ NodeAt(merge_call.L2, SubSeq(path, 1, n)).kind = "map"

\* C21: for all dictionaries L1 and L2 of bounded depth, at every path the
\* merge descends to, deep_merge(L1, L2) holds L1's value where only L1 has
\* the path, L2's value where only L2 has it, a dictionary over the keys of
\* both where both hold a dictionary, and L2's value in every other case.
C21_RecursiveMergeLaw ==
    Merged =>
        LET R == Read(heap, merge_call.result)
        IN  \A path \in KeyPaths(MaxDepth) :
                LET n1 == NodeAt(merge_call.L1, path)
                    n2 == NodeAt(merge_call.L2, path)
                    r == NodeAt(R, path)
                IN  BothMapsAbove(path) =>
                        IF n2.kind = "absent" THEN r = n1
                        ELSE IF n1.kind = "absent" THEN r = n2
                        ELSE IF n1.kind = "map" /\ n2.kind = "map"
                        THEN r.kind = "map"
                             /\ DOMAIN r.items = DOMAIN n1.items \cup DOMAIN n2.items
                        ELSE r = n2

\* both arguments hold a dictionary under "a", in which "a" conflicts and "b"
\* is L1's alone, and "b" is a scalar in L1 and a dictionary in L2
C21_Witness ==
    /\ Merged
    /\ NodeAt(merge_call.L1, <<"a", "a">>).kind = "leaf"
    /\ NodeAt(merge_call.L2, <<"a", "a">>).kind = "leaf"
    /\ NodeAt(merge_call.L1, <<"a", "b">>).kind = "leaf"
    /\ NodeAt(merge_call.L2, <<"a">>).kind = "map"
    /\ NodeAt(merge_call.L2, <<"a", "b">>).kind = "absent"
    /\ NodeAt(merge_call.L1, <<"b">>).kind = "leaf"
    /\ NodeAt(merge_call.L2, <<"b", "a">>).kind = "leaf"
    /\ Read(heap, merge_call.result) =
            Tree({<< <<"a", "a">>, "y" >>, << <<"a", "b">>, "x" >>, << <<"b", "a">>, "y" >>})

\* the layers below the environment override that the merges of this call used
LowerLayers ==
    {CacheValue(heap).architecture, cfg.customer_base, CacheValue(heap).environments}

\* leaf paths the environment override shares with a lower layer
Overridden ==
    {path \in LeafPaths(cfg.env_override) :
        \E layer \in LowerLayers : NodeAt(layer, path).kind = "leaf"}

\* the original statement of C22: every leaf path that the environment
\* override and a lower layer both hold has the override's value in the
\* configuration load_merged_config returns.
C22_OverrideWinsEverywhere ==
    Resolved =>
        \A path \in Overridden :
            NodeAt(cfg.merged_config, path) = NodeAt(cfg.env_override, path)

\* C22: every leaf path outside the `environment` key that the environment
\* override and a lower layer both hold has the override's value in the
\* configuration load_merged_config returns (the `environment` key is replaced
\* by the injected sub-tree).
C22_OverrideWinsOutsideEnvironment ==
    Resolved =>
        \A path \in Overridden :
            Head(path) # "environment" =>
                NodeAt(cfg.merged_config, path) = NodeAt(cfg.env_override, path)

\* the override and the customer base both set the capacity identifier
C22_Witness ==
    /\ Resolved
    /\ <<"capacity", "fabric_capacity_id">> \in Overridden
    /\ NodeAt(cfg.customer_base, <<"capacity", "fabric_capacity_id">>) = Leaf("C")
    /\ NodeAt(cfg.merged_config, <<"capacity", "fabric_capacity_id">>) = Leaf("O")

\* the objects of the two arguments as they were when deep_merge was called
ArgumentObjects == merge_call.given

\* C23: once deep_merge(L1, L2) has returned, and after any later change of
\* the returned dictionary at any depth, every dict object of L1 and of L2 is
\* as it was at the call, and no dict object of L1 or L2 is part of the
\* returned dictionary.
C23_MergeSharesNothing ==
    (op = "merge" /\ merge_call.pc \in {"returned", "mutated"}) =>
        /\ \A a \in DOMAIN ArgumentObjects : heap[a] = ArgumentObjects[a]
        /\ Reach(heap, merge_call.result) \cap DOMAIN ArgumentObjects = {}

\* a dictionary that only L2 holds under "a" was copied into the result, and
\* the caller then added a key to the copy: L2's dictionary has no such key
C23_Witness ==
    /\ op = "merge" /\ merge_call.pc = "mutated"
    /\ NodeAt(merge_call.L1, <<"a">>).kind = "absent"
    /\ NodeAt(merge_call.L2, <<"a">>).kind = "map"
    /\ NodeAt(merge_call.L1, <<"b">>).kind = "map"
    /\ NodeAt(merge_call.L2, <<"b">>).kind = "map"
    /\ "added" \in DOMAIN heap[<<"R", "a">>]
    /\ "added" \notin DOMAIN heap[<<"L2", "a">>]

\* a load_merged_config call after the first one has ended
ResolvedAgain == op = "resolve" /\ cfg.pc = "returned" /\ cfg.call_no > 1

\* C24: when load_merged_config is called again on the same loader for the
\* same customer and environment and no file has changed, it ends as the call
\* before did: with the same error, or with a configuration equal to the one
\* the call before returned, whatever the caller did to that one in between.
C24_ResolveTwiceSameResult ==
    (ResolvedAgain /\ ~cfg.sources_changed) =>
        LET n == Len(loader.returned)
        IN  /\ loader.returned[n].kind = loader.returned[n - 1].kind
            /\ loader.returned[n].value = loader.returned[n - 1].value

\* the caller changed the first configuration, which no longer has the value
\* it was returned with, and the second call returned that value again
C24_Witness ==
    /\ ResolvedAgain /\ ~cfg.sources_changed /\ cfg.error.kind = "ok"
    /\ loader.touched = "mutated"
    /\ Read(heap, loader.returned[1].root) # loader.returned[1].value
    /\ loader.returned[2].value = loader.returned[1].value
    /\ loader.returned[2].root # loader.returned[1].root

\* C25: on one loader, every load_defaults call after the first one that
\* succeeded returns the cached value of that call without reading the default
\* files, also after the files were rewritten; a call that failed leaves the
\* cache empty, and the call after it reads the files again.
C25_DefaultsLoadedOnce ==
    op = "resolve" =>
        LET calls == loader.defaults_calls
            reading == {i \in 1..Len(calls) : calls[i].how # "cached"}
            loaded == {i \in 1..Len(calls) : calls[i].how = "read"}
        IN  /\ \A i \in loaded : \A j \in (i + 1)..Len(calls) :
                    calls[j].how = "cached" /\ calls[j].value = calls[i].value
            /\ \A j \in 1..Len(calls) : loaded \cap 1..(j - 1) = {} => j \in reading
            /\ loader.default_reads = Cardinality(reading)
            /\ (loader.defaults_cache = "None") = (loaded = {})
            /\ loaded # {} => CacheValue(heap) = calls[CHOOSE i \in loaded : TRUE].value

\* the second call returned the value the first call read, after
\* defaults/environments.yaml was rewritten with another content
C25_Witness ==
    /\ op = "resolve" /\ Len(loader.defaults_calls) = 2
    /\ loader.defaults_calls[1].how = "read"
    /\ loader.defaults_calls[2].how = "cached"
    /\ loader.default_reads = 1
    /\ cfg.sources_changed
    /\ loader.defaults_calls[2].value.environments # cfg.env_defaults

\* the exception a failed load of a layer file ends in
Raises(outcome) ==
    IF outcome = "not_found" THEN "FileNotFoundError" ELSE "ValidationError"

\* nothing was merged and no configuration was returned by the call that ended
NothingComposed ==
    /\ cfg.merges = 0 /\ cfg.result = <<>> /\ cfg.merged_config = EmptyTree
    /\ loader.returned[Len(loader.returned)].root = <<>>
    /\ loader.returned[Len(loader.returned)].value = EmptyTree

\* C26: when load_customer_base or load_environment_override fails with
\* FileNotFoundError or a schema ValidationError, load_merged_config ends with
\* that exception, has made no merge and returns no configuration; a merge is
\* made only after all layers were loaded and checked.
C26_LoadFailureBeforeMerge ==
    op = "resolve" =>
        /\ (cfg.pc = "returned" /\ cfg.outcomes.base \in {"not_found", "schema_violation"}) =>
                cfg.error.kind = Raises(cfg.outcomes.base) /\ NothingComposed
        /\ (cfg.pc = "returned" /\ cfg.outcomes.override \in {"not_found", "schema_violation"}) =>
                cfg.error.kind = Raises(cfg.outcomes.override) /\ NothingComposed
        /\ (cfg.pc \in {"merge", "validate"} \/ cfg.merges > 0) =>
                /\ loader.defaults_cache = "cached"
                /\ cfg.outcomes.base = "ok" /\ cfg.outcomes.override = "ok"

\* the customer base was loaded, the environment override did not conform to
\* its schema, and the call ended with the ValidationError
C26_Witness ==
    /\ op = "resolve" /\ cfg.pc = "returned"
    /\ cfg.outcomes.base = "ok" /\ cfg.outcomes.override = "schema_violation"
    /\ cfg.error.kind = "ValidationError" /\ NothingComposed

\* C27: the configuration load_merged_config returns holds under
\* `environment` a dictionary with the requested environment as `name`, with
\* the environment override's top-level workspace_id as `workspace_id` when the
\* override has one, and with no other key: nothing of a layer's `environment`
\* key is in it.
C27_EnvironmentSubTreeInjected ==
    Resolved =>
        LET env == NodeAt(cfg.merged_config, <<"environment">>)
        IN  /\ env.kind = "map"
            /\ env.items["name"] = Leaf(cfg.environment)
            /\ IF "workspace_id" \in DOMAIN cfg.env_override
               THEN /\ DOMAIN env.items = {"name", "workspace_id"}
                    /\ env.items["workspace_id"] = cfg.env_override["workspace_id"]
               ELSE DOMAIN env.items = {"name"}

\* the override and the customer base both hold an `environment` key, and the
\* override has a workspace_id
C27_Witness ==
    /\ Resolved
    /\ NodeAt(cfg.env_override, <<"environment", "region">>).kind = "leaf"
    /\ NodeAt(cfg.customer_base, <<"environment", "region">>).kind = "leaf"
    /\ cfg.env_override["workspace_id"] = Leaf("O")
    /\ cfg.merged_config["environment"].items =
            Tree({<< <<"name">>, cfg.environment >>, << <<"workspace_id">>, "O" >>})

\* how the status of the result may change in one step of a call
StatusStep ==
    LET before == call.result.status
        after == call'.result.status
    IN  after # before =>
            \/ op = "deployCustomer" /\ before = DEPLOYING /\ after \in {DEPLOYED, FAILED}
            \/ op = "destroyDeployment" /\ before = DESTROYING /\ after \in {NOT_DEPLOYED, FAILED}

\* the status of the result at the entry and at the return of a call
StatusAtEnds ==
    /\ (op = "deployCustomer" /\ call.pc = "validation") => call.result.status = DEPLOYING
    /\ (op = "destroyDeployment" /\ call.pc = "destroy") => call.result.status = DESTROYING
    /\ (op = "deployCustomer" /\ Returned) =>
            /\ call.result.status \in {DEPLOYED, FAILED}
            /\ call.result.success = (call.result.status = DEPLOYED)
    /\ (op = "destroyDeployment" /\ Returned) =>
            /\ call.result.status \in {NOT_DEPLOYED, FAILED}
            /\ call.result.success = (call.result.status = NOT_DEPLOYED)

\* C28: in a deploy_customer call the status of the result starts as DEPLOYING
\* and changes only from DEPLOYING to DEPLOYED or FAILED, in a
\* destroy_deployment call only from DESTROYING to NOT_DEPLOYED or FAILED, so a
\* status once DEPLOYED, FAILED or NOT_DEPLOYED stays; the returned status is
\* never DEPLOYING or DESTROYING, and success is true exactly when it is
\* DEPLOYED (deploy) or NOT_DEPLOYED (destroy).
C28_StatusTransitions ==
    /\ []StatusAtEnds
    /\ [][(op \in {"deployCustomer", "destroyDeployment"}) => StatusStep]_vars

\* a deployment that got past planning and failed in the infrastructure phase
C28_Witness ==
    /\ InDeploy /\ Returned
    /\ HasPhase(PLANNING) /\ call.infra = "apply_failed"
    /\ call.result.status = FAILED /\ ~call.result.success

\* the phase lists a deploy_customer result may hold
PhaseLists ==
    {<<>>, <<VALIDATION>>, <<VALIDATION, PLANNING>>,
     <<VALIDATION, PLANNING, INFRASTRUCTURE, ARTIFACTS>>,
     <<VALIDATION, PLANNING, INFRASTRUCTURE, ARTIFACTS, VERIFICATION>>}

\* phases are only appended
PhasesAppended ==
    LET before == call.result.phases_completed
        after == call'.result.phases_completed
    IN  Len(before) <= Len(after) /\ SubSeq(after, 1, Len(before)) = before

\* every phase before a recorded phase succeeded in this call
PhasesGated ==
    /\ HasPhase(PLANNING) => call.readiness = "ok"
    /\ HasPhase(INFRASTRUCTURE) => call.readiness = "ok" /\ call.planning = "ok"
    /\ (HasPhase(ARTIFACTS) \/ HasPhase(VERIFICATION)) =>
            call.readiness = "ok" /\ call.planning = "ok" /\ call.infra = "ok"

\* the phase list of the result is one of the five lists, at every point of the call
PhasesWellFormed == InDeploy => call.result.phases_completed \in PhaseLists

\* C29: the phases_completed of every result deploy_customer returns is [],
\* [VALIDATION], [VALIDATION, PLANNING], that plus INFRASTRUCTURE and ARTIFACTS,
\* or that plus VERIFICATION; phases are only appended, and a phase is recorded
\* only after every earlier phase of the call succeeded.
C29_PhasesOrderedAndGated ==
    /\ []PhasesWellFormed
    /\ [](InDeploy => PhasesGated)
    /\ [][InDeploy => PhasesAppended]_vars

\* the part of C29 that does not depend on how init and apply ended
C29_PhasesOrdered ==
    /\ []PhasesWellFormed
    /\ [][InDeploy => PhasesAppended]_vars

\* the position of a collaborator operation in the calls of this deploy_customer call
FirstCall(o) == CHOOSE i \in 1..Len(call.calls) : call.calls[i] = o

\* C30: in a deploy_customer call, init is invoked only after planning
\* succeeded and dry_run is false, apply only after init returned success in
\* the same call and never when init failed, and INFRASTRUCTURE is in
\* phases_completed exactly when ARTIFACTS is.
C30_InitThenApply ==
    InDeploy =>
        /\ Invoked("init") =>
                call.planning = "ok" /\ ~call.dry_run /\ HasPhase(PLANNING)
        /\ Invoked("apply") =>
                /\ Invoked("init") /\ FirstCall("init") < FirstCall("apply")
                /\ call.infra \in {"ok", "apply_failed", "apply_raised"}
        /\ call.infra \in {"init_failed", "init_raised"} => ~Invoked("apply")
        /\ HasPhase(INFRASTRUCTURE) <=> HasPhase(ARTIFACTS)

\* init returned a failure: apply was not invoked, neither phase is recorded
C30_Witness ==
    /\ InDeploy /\ Returned
    /\ call.infra = "init_failed" /\ Invoked("init") /\ ~Invoked("apply")
    /\ ~HasPhase(INFRASTRUCTURE) /\ ~HasPhase(ARTIFACTS)

-----------------------------------------------------------------------------
(* C31: once init and apply have succeeded, the deployment is a success with
   status DEPLOYED whatever verification and the reading of the outputs do:
   VERIFICATION is among the completed phases exactly when the verification's
   getOutputs answered a non-empty mapping, and a raising getOutputs at lines
   164-170 leaves a warning and no error *)

OutputsWarning == <<"Failed to get Terraform outputs: ">> \o ExcMsg("getOutputs")

WarnedAboutOutputs ==
    \E i \in 1..Len(call.result.warnings) : call.result.warnings[i] = OutputsWarning

C31_VerificationNeverFailsDeployment ==
    (InDeploy /\ call.infra = "ok" /\ call.pc \in {"outputs", "returned"}) =>
        /\ call.result.success
        /\ call.result.status = DEPLOYED
        /\ call.result.errors = <<>>
        /\ HasPhase(VERIFICATION) <=> (call.verified = "outputs")
        /\ Returned => (WarnedAboutOutputs <=> (call.outputs_read = "raise"))

C31_Witness ==
    /\ InDeploy /\ Returned /\ call.infra = "ok"
    /\ call.verified = "empty" /\ call.outputs_read = "raise"
    /\ call.result.success /\ call.result.status = DEPLOYED
    /\ ~HasPhase(VERIFICATION) /\ WarnedAboutOutputs

-----------------------------------------------------------------------------
(* C32: the cancellation after the first failure of a parallel batch touches
   only deployments that have not started: a cancelled customer was never
   attempted and no collaborator operation was invoked for it, a deployment
   that is executing stays executing until it finishes by itself, and the
   coordinator is past the executor only when no deployment is executing *)

Cancelled == {i \in DOMAIN futures : futures[i].state = "cancelled"}

CancelledNeverStarted ==
    \A i \in Cancelled :
        /\ adapter_calls[i] = <<>>
        /\ \A k \in 1..Len(attempted) : attempted[k] # customers[i]
        /\ i \in at_failure.pending

StartedRunToReturn ==
    batch_pc \in {"complete", "returned"} =>
        /\ Running = {}
        /\ \A k \in 1..Len(attempted) :
              \E i \in DOMAIN futures : customers[i] = attempted[k] /\ futures[i].state = "finished"
        /\ \A i \in at_failure.running : futures[i].state = "finished"

NeverInterrupted ==
    \A i \in DOMAIN futures :
        (futures[i].state = "running" /\ i \in DOMAIN futures') =>
            futures'[i].state \in {"running", "finished"}

C32_CancellationOnlyBeforeStart ==
    /\ []((op = "deployMany" /\ parallel) => (CancelledNeverStarted /\ StartedRunToReturn))
    /\ [][(op = "deployMany" /\ parallel) => NeverInterrupted]_vars

C32_Witness ==
    /\ op = "deployMany" /\ parallel /\ batch_pc = "returned"
    /\ Cancelled # {}
    /\ \E i \in at_failure.running : futures[i].state = "finished" /\ adapter_calls[i] # <<>>

-----------------------------------------------------------------------------
(* C33: at every instant of a parallel batch at most 3 deploy_customer calls
   are executing, however many customers were submitted; in a sequential batch
   no call executes beside the coordinator's own, customers are attempted in
   list order, and each attempt has returned and been recorded before the next
   one starts *)

SequentialOneAtATime ==
    /\ futures = <<>>
    /\ Len(attempted) <= Len(customers)
    /\ attempted = SubSeq(customers, 1, Len(attempted))
    /\ Len(attempted) = success_count(batch_result) + failure_count(batch_result)

C33_AtMostThreeExecuting ==
    op = "deployMany" =>
        /\ parallel => Cardinality(Running) <= 3
        /\ ~parallel => SequentialOneAtATime

C33_Witness ==
    /\ op = "deployMany" /\ parallel
    /\ Len(customers) > 3
    /\ Cardinality(Running) = 3
    /\ \E i \in DOMAIN futures : Pending(i)

-----------------------------------------------------------------------------
(* C34: validate_deployment_readiness runs its five checks whatever the
   earlier ones found, and the result it returns carries the errors and the
   warnings of every check, in the order of the checks: when two checks fail
   the errors of both are in the result *)

ReadinessReturned == op = "checkReadiness" /\ validator.pc = "returned"

NameErrors ==
    IF validate_customer_name(validator.customer_name)
    THEN <<>> ELSE << <<"Invalid customer name format">> >>

EnvironmentErrors ==
    IF validator.environment \in Environments THEN <<>> ELSE << <<"Invalid environment">> >>

ConfigValidation == validate_customer_config(validator.config_raised)

ArtifactsValidation == validate_artifacts_exist(validator.artifacts_raised)

-----------------------------------------------------------------------------
(* C35: validate_prerequisites evaluates the five facts on every call, a check
   that is false or that fails does not keep a later one from running, and the
   PrerequisiteCheck returned holds each check's own outcome; all_met is true
   exactly when failed_checks is empty *)

PrerequisitesReturned == op = "checkPrerequisites" /\ validator.pc = "returned"

\* what each check answers by itself: a check that fails answers False
OwnOutcomes ==
    [PrerequisiteCheck EXCEPT
        !.terraform_available = check_terraform_available(validator.terraform) = "True",
        !.configuration_valid = TRUE,
        !.artifacts_present = TRUE,
        !.workspace_accessible = TRUE,
        !.credentials_valid = check_credentials_valid(validator.has_env_vars, validator.az)]

C35_EveryPrerequisiteEvaluated ==
    PrerequisitesReturned =>
        /\ validator.prereq_check.ran = PrereqNames
        /\ validator.prereq_check.check = OwnOutcomes
        /\ all_met(validator.prereq_check.check) <=> (failed_checks(validator.prereq_check.check) = <<>>)

-----------------------------------------------------------------------------
(* C36: whenever deploy_multiple_customers returns a batch result whose
   overall_success is true, every customer of the input list is in
   successful_deployments and success_count equals total_customers, on the
   return at 244 and on the return of the except branch at 252 alike *)

BatchReturnedAnyway == op = "deployMany" /\ batch_pc \in {"returned", "returned_from_except"}

C36_OverallSuccessMeansAllDeployed ==
    (BatchReturnedAnyway /\ overall_success(batch_result)) =>
        /\ success_count(batch_result) = batch_result.total_customers
        /\ \A i \in DOMAIN customers :
              \E k \in DOMAIN batch_result.successful_deployments :
                 batch_result.successful_deployments[k].customer_name = customers[i]

\* on the return at 244 the property holds
C36_OverallSuccessAtNormalReturn ==
    (BatchReturned /\ overall_success(batch_result)) =>
        /\ success_count(batch_result) = batch_result.total_customers
        /\ \A i \in DOMAIN customers :
              \E k \in DOMAIN batch_result.successful_deployments :
                 batch_result.successful_deployments[k].customer_name = customers[i]

-----------------------------------------------------------------------------
(* C37: with continue_on_error false, a deploy_customer call that raises stops
   the batch as a returned failure does, in both modes: once the failed result
   made for the exception is in the batch result, no customer that had not
   started is attempted and no further result is recorded *)

SyntheticRecorded ==
    \E k \in DOMAIN batch_result.failed_deployments :
        IsSyntheticFailure(batch_result.failed_deployments[k],
                           batch_result.failed_deployments[k].customer_name)

StoppedAfterException ==
    (op = "deployMany" /\ ~continue_on_error /\ SyntheticRecorded) =>
        /\ attempted' = attempted
        /\ batch_result'.successful_deployments = batch_result.successful_deployments
        /\ batch_result'.failed_deployments = batch_result.failed_deployments

C37_WorkerExceptionStopsBatch == [][StoppedAfterException]_vars

\* in sequential mode the exception does stop the batch
C37_SequentialExceptionStopsBatch == [][~parallel => StoppedAfterException]_vars

-----------------------------------------------------------------------------
(* C38: prepare_template_variables leaves the merged configuration it is given
   as it was: the argument has the same value after the call as before, and a
   later change of the returned template variables does not change it *)

ArgumentValue(h) == Read(h, cfg.result)

PrepareLeavesArgument ==
    (op = "resolve" /\ loader.touched = "nothing" /\ loader'.touched = "prepared") =>
        ArgumentValue(heap') = ArgumentValue(heap)

VariablesDoNotAliasArgument ==
    (op = "resolve" /\ loader.touched = "prepared" /\ loader'.touched = "variables_mutated") =>
        ArgumentValue(heap') = ArgumentValue(heap)

C38_PrepareDoesNotModifyArgument == [][PrepareLeavesArgument /\ VariablesDoNotAliasArgument]_vars

\* each half of the claim by itself
C38_ArgumentUnchangedByCall == [][PrepareLeavesArgument]_vars

C38_ArgumentUnchangedByLaterMutation == [][VariablesDoNotAliasArgument]_vars

-----------------------------------------------------------------------------
(* C39: when the pool's workers call load_defaults on the one loader at the
   same time, the default files are read at most once, every call returns the
   one cached dict, and the cache, once set, is never assigned again *)

DefaultsReadOnce == shared_loader.reads <= 1 /\ shared_loader.assignments <= 1

SameCachedValue ==
    \A t, u \in Workers :
        (shared_loader.pc[t] = "returned" /\ shared_loader.pc[u] = "returned") =>
            shared_loader.returned[t] = shared_loader.returned[u]

CacheNeverReplaced ==
    shared_loader.defaults_cache # None => shared_loader'.defaults_cache = shared_loader.defaults_cache

C39_SharedDefaultsLoadedOnce ==
    /\ [](op = "loadDefaults" => (DefaultsReadOnce /\ SameCachedValue))
    /\ [][op = "loadDefaults" => CacheNeverReplaced]_vars

-----------------------------------------------------------------------------
(* C40: every deploy_customer call eventually returns, and every
   deploy_multiple_customers call eventually returns its batch result with
   completed_at set, in sequential and in parallel mode, for every customer
   list, either continue_on_error setting and every pattern of failures and
   worker exceptions *)

DeployCustomerReturns == (op = "deployCustomer") ~> (call.pc = "returned")

DeployManyReturns ==
    (op = "deployMany" /\ batch_pc = "entry") ~>
        (BatchReturnedAnyway /\ batch_result.completed_at = "set")

C40_EventuallyReturns == DeployCustomerReturns /\ DeployManyReturns

C40_Witness ==
    /\ BatchReturned /\ parallel /\ ~continue_on_error
    /\ Len(customers) = MaxCustomers
    /\ Cancelled # {}
    /\ worker_raised # {}
    /\ batch_result.completed_at = "set"


=============================================================================
